---------------------------- MODULE Spec2Model ----------------------------
(***************************************************************************)
(* GeoDesk FDW: predicate pushdown (type_filter.c, goql_converter.c,       *)
(* geodesk_fdw.c), the scan cursor (geodesk_connection.cpp) and the        *)
(* member / parent enumeration (geodesk_members_jsonb.cpp,                 *)
(* geodesk_parents_jsonb.cpp), ring assembly (geodesk_ring_assembler.cpp), *)
(* the geometry builder (geodesk_lwgeom_builder.cpp) and the tuple a scan  *)
(* step stores (geodesk_fdw.c).                                            *)
(*                                                                         *)
(* Strings are sequences of one-character strings, so that concatenation   *)
(* and the store's parsing of a filter string are computed, not assumed.   *)
(***************************************************************************)
EXTENDS Integers, Sequences, FiniteSets, TLC

VARIABLES
    pc,         \* position of the driver of the specification being run
    conn,       \* GeodeskConnection (geodesk_connection_internal.h)
    out,        \* result of the last geodesk_get_next_feature call
    obs,        \* ids returned in this pass and in the first complete pass (observer)
    calls,      \* filter calls made on the connection so far (observer)
    fdw,        \* planner / executor state of the FDW callbacks
    xl,         \* input and output of one translator call
    en,         \* state of one member / parent enumeration
    ra,         \* state of one ring assembly
    geo,        \* input and output of one geometry build
    row         \* the tuple the last geodeskIterateForeignScan call stored

vars == <<pc, conn, out, obs, calls, fdw, xl, en, ra, geo, row>>

-----------------------------------------------------------------------------
(* Bounds of the model *)

MaxResets == 1
MaxClauses == 2
MaxInList == 3
MaxOver == 2

-----------------------------------------------------------------------------
(* Strings *)

RECURSIVE Concat(_)
Concat(ss) == IF ss = <<>> THEN <<>> ELSE Head(ss) \o Concat(Tail(ss))

\* index of the first occurrence of character c in s at or after i, 0 if none
RECURSIVE IndexFrom(_, _, _)
IndexFrom(s, c, i) ==
    IF i > Len(s) THEN 0
    ELSE IF s[i] = c THEN i
    ELSE IndexFrom(s, c, i + 1)

\* s split at every occurrence of character c
RECURSIVE SplitAt(_, _)
SplitAt(s, c) ==
    LET i == IndexFrom(s, c, 1)
    IN  IF i = 0 THEN <<s>>
        ELSE <<SubSeq(s, 1, i - 1)>> \o SplitAt(SubSeq(s, i + 1, Len(s)), c)

Range(s) == {s[i] : i \in 1..Len(s)}

K_name == <<"n", "m">>
K_building == <<"b", "u">>
V_yes == <<"y">>
V_x == <<"x">>
V_z == <<"z">>
Keys == {K_name, K_building}
Values == {V_yes, V_x, V_z}

-----------------------------------------------------------------------------
(* The feature store (a GOL file), in iteration order.  Coordinates are    *)
(* store units.  The last but one feature is one whose record cannot be    *)
(* read: reading it raises an exception inside libgeodesk.                 *)

NoTag == <<>>

Feat(id, type, area, name, building, x, y, corrupt) ==
    [id |-> id, type |-> type, is_area |-> area,
     tags |-> [k \in Keys |-> IF k = K_name THEN name ELSE building],
     x |-> x, y |-> y, corrupt |-> corrupt]

Store ==
    << Feat(11, 0, FALSE, V_x,   NoTag, 100,  100,  FALSE),
       Feat(12, 0, FALSE, NoTag, NoTag, 5000, 5000, FALSE),
       Feat(21, 1, FALSE, V_z,   NoTag, 200,  200,  FALSE),
       Feat(22, 1, TRUE,  NoTag, V_yes, 300,  300,  FALSE),
       Feat(23, 1, TRUE,  V_x,   V_yes, 6000, 100,  FALSE),
       Feat(31, 2, TRUE,  V_x,   V_yes, 400,  400,  FALSE),
       Feat(24, 1, FALSE, V_x,   V_x,   600,  600,  TRUE),
       Feat(32, 2, FALSE, V_z,   NoTag, 500,  500,  FALSE) >>

Idx == 1..Len(Store)

-----------------------------------------------------------------------------
(* The store's filter language (GOQL) as the repository documents it:      *)
(* a type prefix (n nodes, w ways, a areas, r relations, * everything)     *)
(* followed by bracketed tag fragments [key=value], [key=v1,v2], [key=*].  *)

TypeChars == {"n", "w", "a", "r"}

\* the type classes a prefix token denotes; {} when it is no token
TokenClasses(p) ==
    IF p = <<"*">> THEN TypeChars
    ELSE IF /\ p # <<>>
            /\ Range(p) \subseteq TypeChars
            /\ Cardinality(Range(p)) = Len(p) THEN Range(p)
    ELSE {}

IsTypeToken(p) == TokenClasses(p) # {}

\* one bracketed fragment "[key=values]" given without its brackets
ParseFragment(body) ==
    LET e == IndexFrom(body, "=", 1)
        key == SubSeq(body, 1, e - 1)
        vals == SubSeq(body, e + 1, Len(body))
    IN  IF e <= 1 \/ vals = <<>> \/ "[" \in Range(body) THEN [ok |-> FALSE]
        ELSE IF vals = <<"*">> THEN [ok |-> TRUE, key |-> key, any |-> TRUE, vals |-> {}]
        ELSE IF <<>> \in Range(SplitAt(vals, ",")) THEN [ok |-> FALSE]
        ELSE [ok |-> TRUE, key |-> key, any |-> FALSE, vals |-> Range(SplitAt(vals, ","))]

\* the fragments of the text after the prefix; <<[ok |-> FALSE]>> inside when malformed
RECURSIVE ParseFragments(_)
ParseFragments(s) ==
    IF s = <<>> THEN <<>>
    ELSE LET c == IndexFrom(s, "]", 1)
         IN  IF s[1] # "[" \/ c = 0 THEN <<[ok |-> FALSE]>>
             ELSE <<ParseFragment(SubSeq(s, 2, c - 1))>>
                      \o ParseFragments(SubSeq(s, c + 1, Len(s)))

ParseQuery(q) ==
    LET b == IndexFrom(q, "[", 1)
        prefix == IF b = 0 THEN q ELSE SubSeq(q, 1, b - 1)
        rest == IF b = 0 THEN <<>> ELSE SubSeq(q, b, Len(q))
        frags == ParseFragments(rest)
    IN  [ok |-> IsTypeToken(prefix) /\ \A i \in 1..Len(frags) : frags[i].ok,
         prefix |-> prefix,
         classes |-> TokenClasses(prefix),
         frags |-> frags]

\* the class of a feature in the filter language
FeatureClass(f) ==
    IF f.type = 0 THEN "n"
    ELSE IF f.is_area THEN "a"
    ELSE IF f.type = 1 THEN "w"
    ELSE "r"

MatchesFragment(f, fr) ==
    /\ fr.key \in Keys
    /\ f.tags[fr.key] # NoTag
    /\ fr.any \/ f.tags[fr.key] \in fr.vals

\* a feature passes a parsed query
MatchesQuery(f, pq) ==
    /\ FeatureClass(f) \in pq.classes
    /\ \A i \in 1..Len(pq.frags) : MatchesFragment(f, pq.frags[i])

\* a box <<min_x, min_y, max_x, max_y>> in store units contains the feature
InBox(f, box) ==
    /\ box[1] <= f.x /\ f.x <= box[3]
    /\ box[2] <= f.y /\ f.y <= box[4]


-----------------------------------------------------------------------------
(* Views of the store (geodesk::Features) and cursors over them            *)

NullView == [null |-> TRUE, ids |-> {}]
AllFeatures == [null |-> FALSE, ids |-> Idx]
NullIter == [null |-> TRUE, rest |-> <<>>]

\* Features::operator()(const char*): the narrowed view, or an exception
ApplyQuery(view, q) ==
    LET pq == ParseQuery(q)
    IN  IF pq.ok
        THEN [thrown |-> FALSE,
              view |-> [null |-> FALSE,
                        ids |-> {i \in view.ids : MatchesQuery(Store[i], pq)}]]
        ELSE [thrown |-> TRUE, view |-> NullView]

\* Features::operator()(const Box&)
ApplyBox(view, box) ==
    [null |-> FALSE, ids |-> {i \in view.ids : InBox(Store[i], box)}]

\* Features::begin(): the features of the view in store order
ViewBegin(view) ==
    [null |-> FALSE,
     rest |-> SelectSeq([i \in Idx |-> i], LAMBDA i : i \in view.ids)]

\* handle: the caller holds a non-null handle; allocated: GeodeskConnection
\* objects created with new and not yet deleted; released: deletes so far
NoConnection ==
    [handle |-> FALSE, features |-> NullView, filtered_features |-> NullView,
     bbox_filtered_features |-> NullView, query |-> <<>>,
     has_bbox_filter |-> FALSE, current_iter |-> NullIter,
     iteration_started |-> FALSE, current_feature |-> 0,
     allocated |-> 0, released |-> 0]

\* whether Features(path) can open the GOL file
GoodPath == "test.gol"
BadPath == "missing.gol"
PathOpens(path) == path = GoodPath

\* geodesk_open: the connection object is created first; when Features(path)
\* throws, the handlers return a null handle and the object stays allocated
geodesk_open(path, query) ==
    IF ~PathOpens(path) THEN [NoConnection EXCEPT !.allocated = 1]
    ELSE LET c0 == [NoConnection EXCEPT !.handle = TRUE, !.features = AllFeatures,
                                        !.allocated = 1]
         IN  IF query # <<>>
             THEN LET r == ApplyQuery(c0.features, query)
                  IN  [c0 EXCEPT !.query = query,
                                 !.filtered_features =
                                     IF r.thrown THEN NullView ELSE r.view]
             ELSE c0

\* geodesk_close: the object behind a non-null handle is deleted with its
\* views and its cursor; the caller's handle is the caller's to clear
geodesk_close(c) ==
    IF ~c.handle THEN c
    ELSE [NoConnection EXCEPT !.handle = TRUE,
                              !.allocated = c.allocated - 1,
                              !.released = c.released + 1]

\* geodeskEndForeignScan: a connection that is set is closed and cleared
EndForeignScan(c) ==
    IF c.handle THEN [geodesk_close(c) EXCEPT !.handle = FALSE] ELSE c

\* the view geodesk_reset_iteration iterates
FeaturesToIterate(c) ==
    IF ~c.bbox_filtered_features.null THEN c.bbox_filtered_features
    ELSE IF ~c.filtered_features.null THEN c.filtered_features
    ELSE c.features

\* a reset that keeps a cursor that already exists (C8 must tell it apart)
geodesk_reset_iteration_keep(c) ==
    IF ~c.handle THEN c
    ELSE IF FeaturesToIterate(c).null THEN c
    ELSE IF ~c.current_iter.null THEN [c EXCEPT !.iteration_started = TRUE]
    ELSE [c EXCEPT !.current_iter = ViewBegin(FeaturesToIterate(c)),
                   !.iteration_started = TRUE]

\* geodesk_reset_iteration
geodesk_reset_iteration(c) ==
    IF ~c.handle THEN c
    ELSE IF FeaturesToIterate(c).null THEN c
    ELSE [c EXCEPT !.current_iter = ViewBegin(FeaturesToIterate(c)),
                   !.iteration_started = TRUE]

NoFeature == [found |-> FALSE, id |-> 0, type |-> 0, is_area |-> FALSE]

\* a next() that advances by two records (C9 must tell it apart)
geodesk_get_next_feature_skip(c) ==
    IF ~c.handle THEN [conn |-> c, out |-> NoFeature]
    ELSE LET c1 == IF ~c.iteration_started THEN geodesk_reset_iteration(c) ELSE c
         IN  IF c1.current_iter.null \/ c1.current_iter.rest = <<>>
             THEN [conn |-> c1, out |-> NoFeature]
             ELSE LET i == Head(c1.current_iter.rest)
                      f == Store[i]
                  IN  IF f.corrupt
                      THEN [conn |-> c1, out |-> NoFeature]
                      ELSE [conn |-> [c1 EXCEPT !.current_feature = i,
                                                !.current_iter.rest =
                                                    IF Len(@) >= 2 THEN Tail(Tail(@))
                                                    ELSE <<>>],
                            out |-> [found |-> TRUE, id |-> f.id, type |-> f.type,
                                     is_area |-> f.is_area]]

\* geodesk_get_next_feature: the connection afterwards and the record returned
geodesk_get_next_feature(c) ==
    IF ~c.handle THEN [conn |-> c, out |-> NoFeature]
    ELSE LET c1 == IF ~c.iteration_started THEN geodesk_reset_iteration(c) ELSE c
         IN  IF c1.current_iter.null \/ c1.current_iter.rest = <<>>
             THEN [conn |-> c1, out |-> NoFeature]
             ELSE LET i == Head(c1.current_iter.rest)
                      f == Store[i]
                  IN  IF f.corrupt
                      THEN [conn |-> c1, out |-> NoFeature]
                      ELSE [conn |-> [c1 EXCEPT !.current_feature = i,
                                                !.current_iter.rest = Tail(@)],
                            out |-> [found |-> TRUE, id |-> f.id, type |-> f.type,
                                     is_area |-> f.is_area]]

\* static_cast<int32_t>(m * METERS_TO_IMP): truncation towards zero of the
\* product with 4294967294.9999 / 40075016.68558 = 107.1732 (four decimals)
ImpNum == 1071732
ImpDen == 10000
MetersToImp(m) ==
    IF m >= 0 THEN (m * ImpNum) \div ImpDen ELSE -(((-m) * ImpNum) \div ImpDen)

ImpBox(mbox) == <<MetersToImp(mbox[1]), MetersToImp(mbox[2]),
                  MetersToImp(mbox[3]), MetersToImp(mbox[4])>>

\* geodesk_set_spatial_filter, the box given in projected metres
geodesk_set_spatial_filter(c, mbox) ==
    IF ~c.handle THEN c
    ELSE LET base == IF ~c.filtered_features.null THEN c.filtered_features
                     ELSE c.features
         IN  [c EXCEPT !.bbox_filtered_features = ApplyBox(base, ImpBox(mbox)),
                       !.has_bbox_filter = TRUE]

\* the string geodesk_set_goql_filter_with_prefix hands to the store;
\* NullStr is a NULL char pointer
NullStr == <<"NULL">>
StrLen(s) == IF s = NullStr THEN 0 ELSE Len(s)

FullQuery(goql, type_prefix) ==
    (IF StrLen(type_prefix) > 0 THEN type_prefix ELSE <<"*">>)
        \o (IF StrLen(goql) > 0 THEN goql ELSE <<>>)

\* geodesk_set_goql_filter_with_prefix
geodesk_set_goql_filter_with_prefix(c, goql, type_prefix) ==
    IF ~c.handle THEN c
    ELSE LET base == IF ~c.bbox_filtered_features.null
                     THEN c.bbox_filtered_features ELSE c.features
         IN  IF base.null THEN c
             ELSE LET r == ApplyQuery(base, FullQuery(goql, type_prefix))
                  IN  [c EXCEPT !.filtered_features =
                                    IF r.thrown THEN NullView ELSE r.view]

-----------------------------------------------------------------------------
(* Expression trees of the host planner (nodes/primnodes.h), as far as the *)
(* translator inspects them.  Columns by attribute number, in the layout   *)
(* of the test tables: fid, type, tags, geom, is_area, members, parents.   *)

Var(attno) == [tag |-> "Var", varattno |-> attno]

\* a constant: consttype INT4 (ival), TEXT (sval) or GEOMETRY (box, in metres;
\* <<>> is the empty geometry, which has no bounding box)
Const(type, isnull, ival, sval, box) ==
    [tag |-> "Const", consttype |-> type, constisnull |-> isnull,
     ival |-> ival, sval |-> sval, box |-> box]
Int4(k) == Const("INT4", FALSE, k, <<>>, <<>>)
Int8(k) == Const("INT8", FALSE, k, <<>>, <<>>)
Text(s) == Const("TEXT", FALSE, 0, s, <<>>)
Null(type) == Const(type, TRUE, 0, <<>>, <<>>)
Geom(box) == Const("GEOMETRY", FALSE, 0, <<>>, box)

OpExpr(opname, opfunc, args) ==
    [tag |-> "OpExpr", opname |-> opname, opfunc |-> opfunc, args |-> args]
ArrayExpr(elements) == [tag |-> "ArrayExpr", elements |-> elements]
ScalarArrayOpExpr(useOr, args) ==
    [tag |-> "ScalarArrayOpExpr", useOr |-> useOr, args |-> args]
NullTest(nulltesttype, arg) ==
    [tag |-> "NullTest", nulltesttype |-> nulltesttype, arg |-> arg]
BoolExpr(boolop, args) == [tag |-> "BoolExpr", boolop |-> boolop, args |-> args]

\* ST_Expand(column, d): a function of a column, d in metres
Expand(col, d) ==
    [tag |-> "FuncExpr", funcname |-> "st_expand", args |-> <<Var(col), Int4(d)>>]

\* a parameter of a prepared statement, bound to the value of constant c
Param(c) == [c EXCEPT !.tag = "Param"]

IsA(e, t) == e.tag = t

\* the spellings the SQL layer produces
Arrow(col, key) == OpExpr("->>", "jsonb_object_field_text", <<Var(col), Text(key)>>)
Eq(l, r) == OpExpr("=", "eq", <<l, r>>)
Ne(l, r) == OpExpr("<>", "ne", <<l, r>>)
In(l, elems) == ScalarArrayOpExpr(TRUE, <<l, ArrayExpr(elems)>>)
NotIn(l, elems) == ScalarArrayOpExpr(FALSE, <<l, ArrayExpr(elems)>>)
Has(col, key) == OpExpr("?", "jsonb_exists", <<Var(col), Text(key)>>)
Overlaps(col, g) == OpExpr("&&", "geometry_overlaps", <<Var(col), g>>)

-----------------------------------------------------------------------------
(* type_filter.c *)

\* an equality translation that gives "w" for kind 1 (C4 must tell it apart)
extract_type_equality_w(expr) ==
    IF ~IsA(expr, "OpExpr") THEN NullStr
    ELSE IF expr.opname # "=" THEN NullStr
    ELSE IF Len(expr.args) # 2 THEN NullStr
    ELSE LET left == expr.args[1]
             right == expr.args[2]
         IN  IF ~IsA(left, "Var") \/ ~IsA(right, "Const") THEN NullStr
             ELSE IF left.varattno # 2 THEN NullStr
             ELSE IF right.consttype # "INT4" \/ right.constisnull THEN NullStr
             ELSE CASE right.ival = 0 -> <<"n">>
                    [] right.ival = 1 -> <<"w">>
                    [] right.ival = 2 -> <<"r">>
                    [] OTHER -> NullStr

\* extract_type_equality: the prefix, or NullStr
extract_type_equality(expr) ==
    IF ~IsA(expr, "OpExpr") THEN NullStr
    ELSE IF expr.opname # "=" THEN NullStr
    ELSE IF Len(expr.args) # 2 THEN NullStr
    ELSE LET left == expr.args[1]
             right == expr.args[2]
         IN  IF ~IsA(left, "Var") THEN NullStr
             ELSE LET swapped == left.varattno # 2
                      value == IF swapped THEN left ELSE right
                  IN  IF swapped /\ ~IsA(right, "Var") THEN NullStr
                      ELSE IF swapped /\ right.varattno # 2 THEN NullStr
                      ELSE IF ~IsA(value, "Const") THEN NullStr
                      ELSE IF value.consttype # "INT4" \/ value.constisnull
                           THEN NullStr
                      ELSE CASE value.ival = 0 -> <<"n">>
                             [] value.ival = 1 -> <<"w", "a">>
                             [] value.ival = 2 -> <<"r">>
                             [] OTHER -> NullStr

\* a loop that stops after the first element (C5 must tell it apart)
TypeInListScan_first(elements, has) ==
    IF elements = <<>> THEN has
    ELSE IF IsA(Head(elements), "Const") /\ Head(elements).ival \in {0, 1, 2}
         THEN has \cup {Head(elements).ival}
         ELSE has

\* the loop of extract_type_in_list over the array elements: the kinds seen
RECURSIVE TypeInListScan(_, _)
TypeInListScan(elements, has) ==
    IF elements = <<>> THEN has
    ELSE LET elem == Head(elements)
         IN  IF ~IsA(elem, "Const") THEN TypeInListScan(Tail(elements), has)
             ELSE IF elem.consttype # "INT4" \/ elem.constisnull
                  THEN TypeInListScan(Tail(elements), has)
             ELSE TypeInListScan(Tail(elements),
                                 IF elem.ival \in {0, 1, 2}
                                 THEN has \cup {elem.ival} ELSE has)

\* extract_type_in_list: the prefix, or NullStr
extract_type_in_list(expr) ==
    IF ~IsA(expr, "ScalarArrayOpExpr") THEN NullStr
    ELSE IF ~expr.useOr THEN NullStr
    ELSE IF Len(expr.args) # 2 THEN NullStr
    ELSE LET left == expr.args[1]
             right == expr.args[2]
         IN  IF ~IsA(left, "Var") THEN NullStr
             ELSE IF left.varattno # 2 THEN NullStr
             ELSE IF ~IsA(right, "ArrayExpr") THEN NullStr
             ELSE LET has == TypeInListScan(right.elements, {})
                      has_nodes == 0 \in has
                      has_ways == 1 \in has
                      has_relations == 2 \in has
                  IN  IF has_nodes /\ has_ways /\ has_relations THEN <<"*">>
                      ELSE IF has_nodes /\ has_ways THEN <<"n", "w", "a">>
                      ELSE IF has_nodes /\ has_relations THEN <<"n", "r">>
                      ELSE IF has_ways /\ has_relations THEN <<"w", "a", "r">>
                      ELSE IF has_nodes THEN <<"n">>
                      ELSE IF has_ways THEN <<"w", "a">>
                      ELSE IF has_relations THEN <<"r">>
                      ELSE NullStr

\* the prefix one clause yields in extract_type_filter_prefix
TypePrefixOf(expr) ==
    IF extract_type_equality(expr) # NullStr THEN extract_type_equality(expr)
    ELSE extract_type_in_list(expr)

\* extract_type_filter_prefix: the first clause that yields a prefix
\* (index 0 and NullStr when none does)
RECURSIVE TypeFilterScan(_, _)
TypeFilterScan(clauses, i) ==
    IF i > Len(clauses) THEN [prefix |-> NullStr, index |-> 0]
    ELSE IF TypePrefixOf(clauses[i]) # NullStr
         THEN [prefix |-> TypePrefixOf(clauses[i]), index |-> i]
    ELSE TypeFilterScan(clauses, i + 1)

extract_type_filter_prefix(clauses) == TypeFilterScan(clauses, 1)

-----------------------------------------------------------------------------
(* goql_converter.c *)

\* is_jsonb_field_access: whether expr is column ->> 'key', and the key
is_jsonb_field_access(expr) ==
    IF ~IsA(expr, "OpExpr") THEN [ok |-> FALSE, key |-> <<>>]
    ELSE IF expr.opfunc # "jsonb_object_field_text" THEN [ok |-> FALSE, key |-> <<>>]
    ELSE IF Len(expr.args) # 2 THEN [ok |-> FALSE, key |-> <<>>]
    ELSE LET arg1 == expr.args[1]
             arg2 == expr.args[2]
         IN  IF ~IsA(arg1, "Var") THEN [ok |-> FALSE, key |-> <<>>]
             ELSE IF ~IsA(arg2, "Const") THEN [ok |-> FALSE, key |-> <<>>]
             ELSE IF arg2.consttype # "TEXT" \/ arg2.constisnull
                  THEN [ok |-> FALSE, key |-> <<>>]
             ELSE [ok |-> TRUE, key |-> arg2.sval]

\* extract_tag_equality: "[key=value]", or NullStr
extract_tag_equality(expr) ==
    IF ~IsA(expr, "OpExpr") THEN NullStr
    ELSE IF expr.opname # "=" THEN NullStr
    ELSE IF Len(expr.args) # 2 THEN NullStr
    ELSE LET l == is_jsonb_field_access(expr.args[1])
             r == is_jsonb_field_access(expr.args[2])
             key == IF l.ok THEN l.key ELSE r.key
             right == IF l.ok THEN expr.args[2] ELSE expr.args[1]
         IN  IF ~l.ok /\ ~r.ok THEN NullStr
             ELSE IF ~IsA(right, "Const") THEN NullStr
             ELSE IF right.consttype # "TEXT" \/ right.constisnull THEN NullStr
             ELSE <<"[">> \o key \o <<"=">> \o right.sval \o <<"]">>

\* a loop that leaves out the commas (C6 must tell it apart)
RECURSIVE TagInListScan_nocomma(_, _, _)
TagInListScan_nocomma(elements, goql, first) ==
    IF elements = <<>> THEN goql
    ELSE IF IsA(Head(elements), "Const")
         THEN TagInListScan_nocomma(Tail(elements), goql \o Head(elements).sval, FALSE)
         ELSE TagInListScan_nocomma(Tail(elements), goql, first)

\* the loop of extract_tag_in_list over the array elements
RECURSIVE TagInListScan(_, _, _)
TagInListScan(elements, goql, first) ==
    IF elements = <<>> THEN goql
    ELSE LET elem == Head(elements)
         IN  IF ~IsA(elem, "Const") THEN TagInListScan(Tail(elements), goql, first)
             ELSE IF elem.consttype # "TEXT" \/ elem.constisnull
                  THEN TagInListScan(Tail(elements), goql, first)
             ELSE TagInListScan(Tail(elements),
                                goql \o (IF first THEN <<>> ELSE <<",">>) \o elem.sval,
                                FALSE)

\* extract_tag_in_list: "[key=v1,v2,...]", or NullStr
extract_tag_in_list(expr) ==
    IF ~IsA(expr, "ScalarArrayOpExpr") THEN NullStr
    ELSE IF ~expr.useOr THEN NullStr
    ELSE IF Len(expr.args) # 2 THEN NullStr
    ELSE LET l == is_jsonb_field_access(expr.args[1])
             right == expr.args[2]
         IN  IF ~l.ok THEN NullStr
             ELSE IF ~IsA(right, "ArrayExpr") THEN NullStr
             ELSE TagInListScan(right.elements, <<"[">> \o l.key \o <<"=">>, TRUE)
                      \o <<"]">>

\* extract_tag_exists: "[key=*]", or NullStr
extract_tag_exists(expr) ==
    IF ~IsA(expr, "OpExpr") THEN NullStr
    ELSE IF expr.opfunc # "jsonb_exists" THEN NullStr
    ELSE IF Len(expr.args) # 2 THEN NullStr
    ELSE LET left == expr.args[1]
             right == expr.args[2]
         IN  IF ~IsA(left, "Var") THEN NullStr
             ELSE IF ~IsA(right, "Const") THEN NullStr
             ELSE IF right.consttype # "TEXT" \/ right.constisnull THEN NullStr
             ELSE <<"[">> \o right.sval \o <<"=", "*", "]">>

\* extract_tag_is_not_null: "[key=*]", or NullStr
extract_tag_is_not_null(expr) ==
    IF ~IsA(expr, "NullTest") THEN NullStr
    ELSE IF expr.nulltesttype # "IS_NOT_NULL" THEN NullStr
    ELSE IF ~is_jsonb_field_access(expr.arg).ok THEN NullStr
    ELSE <<"[">> \o is_jsonb_field_access(expr.arg).key \o <<"=", "*", "]">>

\* the fragment one clause yields in extract_goql_from_clauses
TagFragmentOf(expr) ==
    IF extract_tag_equality(expr) # NullStr THEN extract_tag_equality(expr)
    ELSE IF extract_tag_in_list(expr) # NullStr THEN extract_tag_in_list(expr)
    ELSE IF extract_tag_exists(expr) # NullStr THEN extract_tag_exists(expr)
    ELSE extract_tag_is_not_null(expr)

\* combine_goql_filters
combine_goql_filters(filters) ==
    IF filters = <<>> THEN NullStr ELSE Concat(filters)

\* the fragments extract_goql_from_clauses collects
RECURSIVE GoqlFilters(_)
GoqlFilters(clauses) ==
    IF clauses = <<>> THEN <<>>
    ELSE (IF TagFragmentOf(Head(clauses)) # NullStr
          THEN <<TagFragmentOf(Head(clauses))>> ELSE <<>>)
             \o GoqlFilters(Tail(clauses))

\* extract_goql_from_clauses
extract_goql_from_clauses(clauses) == combine_goql_filters(GoqlFilters(clauses))

-----------------------------------------------------------------------------
(* geodesk_fdw.c: planning *)

\* extract_bbox_from_expr: whether expr is  x && constant geometry, and the
\* envelope of the constant
extract_bbox_from_expr(expr) ==
    IF ~IsA(expr, "OpExpr") THEN [ok |-> FALSE, box |-> <<>>]
    ELSE IF expr.opname # "&&" THEN [ok |-> FALSE, box |-> <<>>]
    ELSE IF Len(expr.args) # 2 THEN [ok |-> FALSE, box |-> <<>>]
    ELSE LET arg2 == expr.args[2]
         IN  IF ~IsA(arg2, "Const") THEN [ok |-> FALSE, box |-> <<>>]
             ELSE IF arg2.constisnull THEN [ok |-> FALSE, box |-> <<>>]
             ELSE IF arg2.box = <<>> THEN [ok |-> FALSE, box |-> <<>>]
             ELSE [ok |-> TRUE, box |-> arg2.box]

\* geodesk_get_options: the relation info a table's options give
geodesk_get_options(options) ==
    [datasource |-> options.datasource,
     query |-> options.query,
     goql_filter |-> options.goql_filter,
     has_spatial_filter |-> FALSE,
     bbox |-> <<>>,
     type_prefix |-> NullStr,
     pushdown_clauses |-> <<>>]

\* the loop of geodeskGetForeignRelSize over baserestrictinfo
RECURSIVE RelSizeScan(_, _, _)
RelSizeScan(clauses, i, fp) ==
    IF i > Len(clauses) THEN fp
    ELSE LET expr == clauses[i]
             b == extract_bbox_from_expr(expr)
             goql == extract_goql_from_clauses(<<expr>>)
         IN  IF b.ok
             THEN RelSizeScan(clauses, i + 1,
                      [fp EXCEPT !.has_spatial_filter = TRUE,
                                 !.bbox = b.box,
                                 !.pushdown_clauses = Append(@, expr)])
             ELSE IF goql # NullStr
             THEN RelSizeScan(clauses, i + 1,
                      [fp EXCEPT !.goql_filter =
                                     IF @ # NullStr THEN @ \o goql ELSE goql,
                                 !.pushdown_clauses = Append(@, expr)])
             ELSE RelSizeScan(clauses, i + 1, fp)

\* geodeskGetForeignRelSize: the relation info after analysing the clauses
GetForeignRelSize(options, clauses) ==
    LET fp0 == geodesk_get_options(options)
        t == extract_type_filter_prefix(clauses)
        fp1 == [fp0 EXCEPT !.pushdown_clauses =
                               IF t.index # 0 THEN <<clauses[t.index]>> ELSE <<>>,
                           !.type_prefix =
                               IF t.prefix # NullStr THEN t.prefix ELSE <<"*">>]
    IN  RelSizeScan(clauses, 1, fp1)

\* list_member: membership by structural equality
list_member(list, x) == \E i \in 1..Len(list) : list[i] = x

\* a plan that keeps every clause for local evaluation (C7 must tell it apart)
GetForeignPlan_keep_all(fp, scan_clauses) ==
    [local_exprs |-> scan_clauses,
     remote_exprs |-> SelectSeq(scan_clauses,
                                LAMBDA c : list_member(fp.pushdown_clauses, c))]

\* geodeskGetForeignPlan: the clauses evaluated locally and those shown as remote
GetForeignPlan(fp, scan_clauses) ==
    [local_exprs |-> SelectSeq(scan_clauses,
                               LAMBDA c : ~list_member(fp.pushdown_clauses, c)),
     remote_exprs |-> SelectSeq(scan_clauses,
                                LAMBDA c : list_member(fp.pushdown_clauses, c))]

-----------------------------------------------------------------------------
(* geodesk_fdw.c: execution *)

\* the connection geodeskBeginForeignScan leaves, with the calls it made
BeginForeignScan(fp) ==
    LET c0 == geodesk_open(fp.datasource, IF fp.query = NullStr THEN <<>> ELSE fp.query)
        c1 == IF fp.has_spatial_filter
              THEN geodesk_set_spatial_filter(c0, fp.bbox) ELSE c0
        c2 == IF fp.goql_filter # NullStr \/ fp.type_prefix # NullStr
              THEN geodesk_set_goql_filter_with_prefix(c1, fp.goql_filter,
                       IF fp.type_prefix # NullStr THEN fp.type_prefix ELSE <<"*">>)
              ELSE c1
    IN  IF ~c0.handle THEN c0 ELSE geodesk_reset_iteration(c2)

\* the calls geodeskBeginForeignScan makes on the bridge, in order
Call(fn, q, box) == [fn |-> fn, q |-> q, box |-> box]

BeginCalls(fp) ==
    <<Call("geodesk_open", IF fp.query = NullStr THEN <<>> ELSE fp.query, <<>>)>>
    \o (IF PathOpens(fp.datasource) /\ fp.has_spatial_filter
        THEN <<Call("geodesk_set_spatial_filter", <<>>, ImpBox(fp.bbox))>> ELSE <<>>)
    \o (IF PathOpens(fp.datasource)
        THEN <<Call("geodesk_set_goql_filter_with_prefix",
                    FullQuery(fp.goql_filter, fp.type_prefix), <<>>)>>
        ELSE <<>>)

-----------------------------------------------------------------------------
(* geodesk_ring_assembler.cpp.  A way is its id, its stored coordinates in
   store units and its AREA flag; a ring is the ids of the ways merged into it
   and its coordinates; a deleted ring is a null entry of the vector. *)

MAX_GAP == 100

\* IMP_TO_METERS = 40075016.68558 / 4294967294.9999 = 0.0093306 metres per
\* unit, kept here in millimetres: 9.3306 = MmNum / MmDen
MmNum == 93306
MmDen == 10000
ImpToMm(v) == IF v >= 0 THEN (v * MmNum) \div MmDen ELSE -(((-v) * MmNum) \div MmDen)

Abs(v) == IF v >= 0 THEN v ELSE -v
Reverse(s) == [i \in 1..Len(s) |-> s[Len(s) + 1 - i]]
Min(S) == CHOOSE x \in S : \A y \in S : x <= y

Way(id, stored, area) == [id |-> id, stored |-> stored, area |-> area]

\* WayCoordinateIterator: the stored coordinates, and for a way with the AREA
\* flag the closing coordinate after them
WayCoordinates(way) ==
    IF way.area THEN way.stored \o <<way.stored[1]>> ELSE way.stored

NullRing == [null |-> TRUE, ways |-> <<>>, coords |-> <<>>]
NewRing == [null |-> FALSE, ways |-> <<>>, coords |-> <<>>]

firstCoord(r) == IF r.coords = <<>> THEN <<0, 0>> ELSE r.coords[1]
lastCoord(r) == IF r.coords = <<>> THEN <<0, 0>> ELSE r.coords[Len(r.coords)]

isClosed(r) == Len(r.coords) >= 4 /\ r.coords[1] = r.coords[Len(r.coords)]

\* Ring::appendWay
appendWay(r, way, rev) ==
    LET wayCoords == IF rev THEN Reverse(WayCoordinates(way))
                     ELSE WayCoordinates(way)
        startIdx == IF r.coords # <<>> /\ wayCoords # <<>>
                       /\ lastCoord(r) = wayCoords[1]
                    THEN 1 ELSE 0
    IN  [r EXCEPT !.ways = Append(@, way.id),
                  !.coords = @ \o SubSeq(wayCoords, startIdx + 1, Len(wayCoords))]

\* Ring::reverse
RingReverse(r) == [r EXCEPT !.coords = Reverse(@), !.ways = Reverse(@)]

\* Ring::mergeRing
mergeRing(r, other, reverseOther) ==
    LET o == IF reverseOther THEN RingReverse(other) ELSE other
        startIdx == IF r.coords # <<>> /\ o.coords # <<>>
                       /\ lastCoord(r) = firstCoord(o)
                    THEN 1 ELSE 0
    IN  [r EXCEPT !.coords = @ \o SubSeq(o.coords, startIdx + 1, Len(o.coords)),
                  !.ways = @ \o o.ways]

\* the rings geodesk_assemble_rings starts from: one per way
InitialRings(ways) == [i \in 1..Len(ways) |-> appendWay(NewRing, ways[i], FALSE)]

\* ring i is in the endpoint index: not deleted and not closed
InEndpointIndex(rings, i) == ~rings[i].null /\ ~isClosed(rings[i])

\* the rings the index lists under the last coordinate of ring i, other than i
Partners(rings, i) ==
    {j \in 1..Len(rings) :
        /\ j # i
        /\ InEndpointIndex(rings, j)
        /\ \/ firstCoord(rings[j]) = lastCoord(rings[i])
           \/ lastCoord(rings[j]) = lastCoord(rings[i])}

MergeCandidates(rings) ==
    {i \in 1..Len(rings) : InEndpointIndex(rings, i) /\ Partners(rings, i) # {}}

\* MergePass that never joins two rings
MergePass_none(rings) == [merged |-> FALSE, rings |-> rings]

\* MergePass that joins the partner to the ring and leaves the partner in
\* the vector
MergePass_keep_other(rings) ==
    IF MergeCandidates(rings) = {} THEN [merged |-> FALSE, rings |-> rings]
    ELSE LET i == Min(MergeCandidates(rings))
             j == Min(Partners(rings, i))
             endToStart == lastCoord(rings[i]) = firstCoord(rings[j])
         IN  [merged |-> TRUE,
              rings |-> [rings EXCEPT ![i] = mergeRing(rings[i], rings[j], ~endToStart)]]

\* one pass of the while loop: the first ring that finds a partner under its
\* last coordinate takes the first such partner, end to start if the partner
\* starts there and reversed otherwise
MergePass(rings) ==
    IF MergeCandidates(rings) = {} THEN [merged |-> FALSE, rings |-> rings]
    ELSE LET Join(i, j) ==
                 LET endToStart == lastCoord(rings[i]) = firstCoord(rings[j])
                 IN  [merged |-> TRUE,
                      rings |-> [rings EXCEPT
                                    ![i] = mergeRing(rings[i], rings[j], ~endToStart),
                                    ![j] = NullRing]]
         IN  CHOOSE pass \in
                 UNION {{Join(i, j) : j \in {Min(Partners(rings, i))}} :
                           i \in {Min(MergeCandidates(rings))}} : TRUE

RECURSIVE MergeLoop(_)
MergeLoop(rings) ==
    IF MergePass(rings).merged THEN MergeLoop(MergePass(rings).rings) ELSE rings

\* CloseOrDiscard keeping a nearly closed ring without appending its start
CloseOrDiscard_keep_open(ring) ==
    IF isClosed(ring) \/ Len(ring.coords) >= 3
    THEN [keep |-> TRUE, ring |-> ring, diag |-> 0]
    ELSE [keep |-> FALSE, ring |-> ring, diag |-> IF ring.ways # <<>> THEN 1 ELSE 0]

\* CloseOrDiscard closing a ring of 3 or more coordinates whatever its gap
CloseOrDiscard_any_gap(ring) ==
    IF isClosed(ring) THEN [keep |-> TRUE, ring |-> ring, diag |-> 0]
    ELSE IF Len(ring.coords) >= 3
    THEN [keep |-> TRUE,
          ring |-> [ring EXCEPT !.coords = Append(@, firstCoord(ring))],
          diag |-> 0]
    ELSE [keep |-> FALSE, ring |-> ring, diag |-> IF ring.ways # <<>> THEN 1 ELSE 0]

\* CloseOrDiscard that also closes a ring whose gap equals the tolerance
CloseOrDiscard_gap_le(ring) ==
    IF isClosed(ring) THEN [keep |-> TRUE, ring |-> ring, diag |-> 0]
    ELSE IF Len(ring.coords) >= 3
            /\ Abs(firstCoord(ring)[1] - lastCoord(ring)[1]) <= MAX_GAP
            /\ Abs(firstCoord(ring)[2] - lastCoord(ring)[2]) <= MAX_GAP
    THEN [keep |-> TRUE,
          ring |-> [ring EXCEPT !.coords = Append(@, firstCoord(ring))],
          diag |-> 0]
    ELSE [keep |-> FALSE, ring |-> ring, diag |-> IF ring.ways # <<>> THEN 1 ELSE 0]

\* the branches of the collecting loop for one ring that is left, given the
\* outcome of dx < MAX_GAP and of dy < MAX_GAP
CloseWithGap(ring, dxBelow, dyBelow) ==
    IF isClosed(ring) THEN [keep |-> TRUE, ring |-> ring, diag |-> 0]
    ELSE IF Len(ring.coords) >= 3
    THEN IF dxBelow /\ dyBelow
         THEN [keep |-> TRUE,
               ring |-> [ring EXCEPT !.coords = Append(@, firstCoord(ring))],
               diag |-> 0]
         ELSE [keep |-> FALSE, ring |-> ring,
               diag |-> IF ring.ways # <<>> THEN 1 ELSE 0]
    ELSE [keep |-> FALSE, ring |-> ring, diag |-> IF ring.ways # <<>> THEN 1 ELSE 0]

\* what the collecting loop does with one ring that is left, for coordinates
\* whose differences fit 32 bits
CloseOrDiscard(ring) ==
    LET dx == Abs(firstCoord(ring)[1] - lastCoord(ring)[1])
        dy == Abs(firstCoord(ring)[2] - lastCoord(ring)[2])
    IN  CloseWithGap(ring, dx < MAX_GAP, dy < MAX_GAP)

INT_MAX == 2147483647
INT_MIN == -INT_MAX - 1

\* a - b of two int32_t does not fit an int32_t
Overflows(a, b) ==
    \/ a >= 0 /\ b < 0 /\ a > INT_MAX + b
    \/ a < 0 /\ b > 0 /\ a < INT_MIN + b

\* a - b in 32-bit two's complement, computed on 16-bit halves
Sub32(a, b) ==
    LET lo == ((a % 65536) - (b % 65536)) % 65536
        borrow == IF (a % 65536) < (b % 65536) THEN 1 ELSE 0
        hi == ((a \div 65536) - (b \div 65536) - borrow) % 65536
    IN  (IF hi >= 32768 THEN hi - 65536 ELSE hi) * 65536 + lo

\* std::abs on int32_t as two's complement hardware computes it
Abs32(v) == IF v = INT_MIN THEN INT_MIN ELSE Abs(v)

\* the outcomes of  std::abs(a - b) < MAX_GAP  on int32_t.  When a - b
\* overflows, or is INT_MIN so that std::abs overflows, the behaviour is
\* undefined: a build either computes in two's complement or treats the
\* difference as the large number it is
GapBelowOutcomes(a, b) ==
    IF Overflows(a, b) \/ Sub32(a, b) = INT_MIN
    THEN {Abs32(Sub32(a, b)) < MAX_GAP, FALSE}
    ELSE {Abs(a - b) < MAX_GAP}

\* the collecting loop: completeRings and the number of discard messages
CollectRings(rings) ==
    LET left == SelectSeq(rings, LAMBDA r : ~r.null)
        cd == [i \in 1..Len(left) |-> CloseOrDiscard(left[i])]
        kept == SelectSeq(cd, LAMBDA c : c.keep)
    IN  [complete |-> [i \in 1..Len(kept) |-> kept[i].ring],
         diags |-> Cardinality({i \in 1..Len(cd) : cd[i].diag = 1})]

\* the POINTARRAY of a ring
ToPointArray(ring) ==
    [i \in 1..Len(ring.coords) |->
        <<ImpToMm(ring.coords[i][1]), ImpToMm(ring.coords[i][2])>>]

\* a coordinate sequence converted point by point
MmCoordsOf(coords) == ToPointArray([coords |-> coords])

\* the conversion loop: a POINTARRAY for every complete ring of 4 or more
ConvertRings(complete) ==
    LET valid == SelectSeq(complete, LAMBDA r : Len(r.coords) >= 4)
    IN  [i \in 1..Len(valid) |-> ToPointArray(valid[i])]

\* geodesk_assemble_rings: the rings returned and the discard messages logged
geodesk_assemble_rings(ways) ==
    IF ways = <<>> THEN [rings |-> <<>>, diags |-> 0]
    ELSE LET c == CollectRings(MergeLoop(InitialRings(ways)))
         IN  [rings |-> ConvertRings(c.complete), diags |-> c.diags]

-----------------------------------------------------------------------------
(* geodesk_lwgeom_builder.cpp.  A geometry is its type and its parts: the
   coordinate pair of a point, the points of a line, the rings of a polygon
   (shell first), the polygons of a multipolygon; parts are in millimetres. *)

\* no geometry: the nullptr geodesk_build_lwgeom returns
NoGeom == [type |-> "none", parts |-> <<>>]

Node(id, x, y) ==
    [kind |-> "node", id |-> id, x |-> x, y |-> y, way |-> Way(0, <<>>, FALSE),
     area |-> FALSE, members |-> <<>>, cached |-> TRUE]

WayFeature(way) ==
    [kind |-> "way", id |-> way.id, x |-> 0, y |-> 0, way |-> way,
     area |-> way.area, members |-> <<>>, cached |-> TRUE]

Relation(id, area, members) ==
    [kind |-> "relation", id |-> id, x |-> 0, y |-> 0, way |-> Way(0, <<>>, FALSE),
     area |-> area, members |-> members, cached |-> TRUE]

\* a member of a relation: its type, the way if it is one, its role, and
\* whether the way lies outside the store's extract
Member(type, way, role, placeholder) ==
    [type |-> type, way |-> way, role |-> role, placeholder |-> placeholder]

\* WaysWithRole taking every way member whatever its role
WaysWithRole_any(f, role) ==
    LET ms == SelectSeq(f.members, LAMBDA m : m.type = "way" /\ ~m.placeholder)
    IN  [i \in 1..Len(ms) |-> ms[i].way]

\* the MemberIterator loop: the way members with the given role, placeholders
\* skipped
WaysWithRole(f, role) ==
    LET ms == SelectSeq(f.members,
                  LAMBDA m : m.type = "way" /\ ~m.placeholder /\ m.role = role)
    IN  [i \in 1..Len(ms) |-> ms[i].way]

\* the isPointInRing lambda: ray casting towards +x; the comparison
\* x < (p2.x - p1.x) * (y - p1.y) / (p2.y - p1.y) + p1.x is made by cross
\* multiplication
isPointInRing(x, y, ring) ==
    LET n == Len(ring)
        Crosses(i) ==
            LET p1 == ring[i]
                p2 == ring[(i % n) + 1]
                dy == p2[2] - p1[2]
            IN  /\ \/ p1[2] <= y /\ y < p2[2]
                   \/ p2[2] <= y /\ y < p1[2]
                /\ IF dy > 0
                   THEN (x - p1[1]) * dy < (p2[1] - p1[1]) * (y - p1[2])
                   ELSE (x - p1[1]) * dy > (p2[1] - p1[1]) * (y - p1[2])
    IN  n >= 3 /\ Cardinality({i \in 1..n : Crosses(i)}) % 2 = 1

\* the outer rings whose ray test accepts the first point of the inner ring
OutersAccepting(outerRings, inner) ==
    {i \in 1..Len(outerRings) : isPointInRing(inner[1][1], inner[1][2], outerRings[i])}

\* lines 210-246: every inner ring goes to the first outer ring that accepts
\* it; a warning for each inner ring that none accepts
AssignHoles(outerRings, innerRings) ==
    [polygonRings |->
        [i \in 1..Len(outerRings) |->
            <<outerRings[i]>> \o
            SelectSeq(innerRings,
                LAMBDA r : /\ OutersAccepting(outerRings, r) # {}
                           /\ Min(OutersAccepting(outerRings, r)) = i)],
     warnings |-> Cardinality({k \in 1..Len(innerRings) :
                                 OutersAccepting(outerRings, innerRings[k]) = {}})]

\* geodesk_build_lwgeom: the geometry returned (none for nullptr) and the
\* warnings raised
geodesk_build_lwgeom(f, storeAvailable) ==
    IF ~f.cached THEN [geom |-> NoGeom, warnings |-> 0]
    ELSE IF f.kind = "node"
    THEN [geom |-> [type |-> "point", parts |-> <<ImpToMm(f.x), ImpToMm(f.y)>>],
          warnings |-> 0]
    ELSE IF f.kind = "way"
    THEN [geom |-> IF f.way.area
                   THEN [type |-> "polygon",
                         parts |-> <<MmCoordsOf(WayCoordinates(f.way))>>]
                   ELSE [type |-> "line", parts |-> MmCoordsOf(WayCoordinates(f.way))],
          warnings |-> 0]
    ELSE IF f.kind = "relation"
    THEN IF ~f.area \/ ~storeAvailable THEN [geom |-> NoGeom, warnings |-> 0]
         ELSE LET outerRings == geodesk_assemble_rings(WaysWithRole(f, "outer")).rings
                  innerRings == geodesk_assemble_rings(WaysWithRole(f, "inner")).rings
                  a == AssignHoles(outerRings, innerRings)
              IN  IF outerRings = <<>> THEN [geom |-> NoGeom, warnings |-> 0]
                  ELSE [geom |-> [type |-> "multipolygon", parts |-> a.polygonRings],
                        warnings |-> a.warnings]
    ELSE [geom |-> NoGeom, warnings |-> 0]

-----------------------------------------------------------------------------
(* Inputs *)

BoxA == <<0, 0, 10, 10>>
BoxB == <<-5, -5, 50, 5>>
Boxes == {BoxA, BoxB}

Q_named == <<"n", "w", "[">> \o K_name \o <<"=", "*", "]">>
F_buildings == <<"w", "a", "[">> \o K_building \o <<"=", "*", "]">>

ATT_fid == 1
ATT_type == 2
ATT_tags == 3
ATT_geom == 4
ATT_is_area == 5
ATT_members == 6
ATT_parents == 7
AllAttrs == {ATT_fid, ATT_type, ATT_tags, ATT_geom, ATT_is_area, ATT_members,
             ATT_parents}

\* the columns of the target list of a query: none (COUNT), fid and tags,
\* fid, geom and members, geom alone, every column
Targets ==
    {{}, {ATT_fid, ATT_tags}, {ATT_fid, ATT_geom, ATT_members}, {ATT_geom}, AllAttrs}

TableOptions ==
    [datasource : {GoodPath, BadPath},
     query : {NullStr, Q_named},
     goql_filter : {NullStr, F_buildings}]

\* top-level clauses of a scan
ScanClauses ==
    { Eq(Var(ATT_type), Int4(0)),
      Eq(Var(ATT_type), Int4(1)),
      In(Var(ATT_type), <<Int4(2), Int4(0)>>),
      Eq(Arrow(ATT_tags, K_building), Text(V_yes)),
      In(Arrow(ATT_tags, K_name), <<Text(V_x), Text(V_z)>>),
      Has(ATT_tags, K_name),
      Overlaps(ATT_geom, Geom(BoxA)),
      Overlaps(ATT_geom, Geom(BoxB)),
      BoolExpr("OR", <<Eq(Arrow(ATT_tags, K_name), Text(V_x)),
                       Eq(Var(ATT_type), Int4(2))>>),
      BoolExpr("NOT", <<Has(ATT_tags, K_building)>>),
      Eq(Var(ATT_fid), Int8(31)) }

SeqsUpTo(S, n) == UNION {[1..k -> S] : k \in 0..n}

ClauseLists == SeqsUpTo(ScanClauses, MaxClauses)

-----------------------------------------------------------------------------
(* geodesk_fdw.c: the columns a scan retrieves and the tuple it builds *)

\* pull_varattnos: the attribute numbers of the columns an expression reads
RECURSIVE pull_varattnos(_)
pull_varattnos(e) ==
    IF e.tag = "Var" THEN {e.varattno}
    ELSE IF e.tag \in {"OpExpr", "ScalarArrayOpExpr", "BoolExpr", "FuncExpr"}
    THEN UNION {pull_varattnos(e.args[i]) : i \in 1..Len(e.args)}
    ELSE IF e.tag = "ArrayExpr"
    THEN UNION {pull_varattnos(e.elements[i]) : i \in 1..Len(e.elements)}
    ELSE IF e.tag = "NullTest" THEN pull_varattnos(e.arg)
    ELSE {}

\* AttrsUsed counting the columns of every clause, pushed down or not
AttrsUsed_all(fp, target, clauses) ==
    target \cup UNION {pull_varattnos(clauses[i]) : i \in 1..Len(clauses)}

\* geodeskGetForeignRelSize, attrs_used: the columns of the target list and
\* of the clauses that are not pushed down
AttrsUsed(fp, target, clauses) ==
    target \cup UNION {pull_varattnos(clauses[i]) :
                          i \in {k \in 1..Len(clauses) :
                                    ~list_member(fp.pushdown_clauses, clauses[k])}}

\* geodeskGetForeignPlan, retrieved_attrs: the user columns of attrs_used in
\* ascending order, or column 1 when there is none
RetrievedAttrs(attrs_used) ==
    LET cols == {a \in attrs_used : a > 0}
    IN  IF cols = {} THEN <<1>>
        ELSE [i \in 1..Cardinality(cols) |->
                 CHOOSE a \in cols : Cardinality({b \in cols : b < a}) = i - 1]

\* geodeskBeginForeignScan, needs_geometry: a retrieved column is named geom
NeedsGeometry(retrieved_attrs) ==
    \E i \in 1..Len(retrieved_attrs) : retrieved_attrs[i] = ATT_geom

\* the cached feature as the geometry builder sees it: a node at its position,
\* a way of three points from its position, a relation without members
CachedFeature(f) ==
    IF f.type = 0 THEN Node(f.id, f.x, f.y)
    ELSE IF f.type = 1
    THEN WayFeature(Way(f.id, <<<<f.x, f.y>>, <<f.x + 10, f.y>>, <<f.x + 10, f.y + 10>>>>,
                        f.is_area))
    ELSE Relation(f.id, f.is_area, <<>>)

\* geodesk_get_tags_json followed by jsonb_in: the object of the tags the
\* cached feature has
TagsJsonb(f) == [k \in {k \in Keys : f.tags[k] # NoTag} |-> f.tags[k]]

NullDatum == [null |-> TRUE]

\* the tuple geodeskIterateForeignScan stores for the record o: every column
\* null unless the loop over retrieved_attrs sets it, and the derivations the
\* loop called
BuildTuple(retrieved_attrs, needs_geometry, c, o) ==
    LET f == Store[c.current_feature]
        want(a) == \E i \in 1..Len(retrieved_attrs) : retrieved_attrs[i] = a
        g == geodesk_build_lwgeom(CachedFeature(f), TRUE).geom
        value(a) ==
            IF ~want(a) THEN NullDatum
            ELSE IF a = ATT_fid THEN [null |-> FALSE, v |-> o.id]
            ELSE IF a = ATT_tags THEN [null |-> FALSE, v |-> TagsJsonb(f)]
            ELSE IF a = ATT_type THEN [null |-> FALSE, v |-> o.type]
            ELSE IF a = ATT_is_area THEN [null |-> FALSE, v |-> o.is_area]
            ELSE IF a = ATT_geom
            THEN IF needs_geometry /\ g # NoGeom THEN [null |-> FALSE, v |-> g]
                 ELSE NullDatum
            ELSE NullDatum
    IN  [stored |-> TRUE,
         values |-> [a \in AllAttrs |-> value(a)],
         decoded |-> (IF want(ATT_tags) THEN {"tags"} ELSE {})
                     \cup (IF want(ATT_geom) /\ needs_geometry THEN {"geom"} ELSE {})]

-----------------------------------------------------------------------------
(* State *)

NoFdw == [options |-> [datasource |-> BadPath, query |-> NullStr,
                       goql_filter |-> NullStr],
          clauses |-> <<>>,
          fpinfo |-> geodesk_get_options([datasource |-> BadPath, query |-> NullStr,
                                          goql_filter |-> NullStr]),
          local_exprs |-> <<>>, remote_exprs |-> <<>>,
          target |-> {}, attrs_used |-> {}, retrieved_attrs |-> <<>>,
          needs_geometry |-> FALSE]
NoXl == [expr |-> Var(0), done |-> FALSE, type_prefix |-> NullStr,
         goql |-> NullStr, has_spatial_filter |-> FALSE, bbox |-> <<>>,
         local_exprs |-> <<>>, remote_exprs |-> <<>>]
NoEn == [fn |-> "none", type |-> 0, n |-> 0, pos |-> 0, count |-> 0,
         emitted |-> <<>>, warnings |-> 0, done |-> FALSE, result |-> "none"]

NoRa == [ways |-> <<>>, rings |-> <<>>, passes |-> 0, complete |-> <<>>,
         diags |-> 0, result |-> <<>>, done |-> FALSE]
NoGeo == [feature |-> 0, store |-> TRUE, done |-> FALSE, geom |-> NoGeom,
          warnings |-> 0]
NoRow == [stored |-> FALSE, values |-> <<>>, decoded |-> {}]

\* cur: the ids returned since the cursor was last (re)built; ended: the last
\* call returned false; first: the ids of the first pass that ran to its end,
\* first_at: the number of resets before that pass; resets: explicit resets so far
NoObs == [cur |-> <<>>, ended |-> FALSE, first |-> <<>>, has_first |-> FALSE,
          first_at |-> 0, resets |-> 0]

\* the observer after one geodesk_get_next_feature call returned o
Observe(ob, o) ==
    IF o.found THEN [ob EXCEPT !.cur = Append(@, o.id)]
    ELSE [ob EXCEPT !.ended = TRUE,
                    !.first = IF ob.has_first THEN @ ELSE ob.cur,
                    !.first_at = IF ob.has_first THEN @ ELSE ob.resets,
                    !.has_first = TRUE]

\* the observer after an explicit reset
ObserveReset(ob) ==
    [ob EXCEPT !.cur = <<>>, !.ended = FALSE, !.resets = @ + 1]

Idle ==
    /\ conn = NoConnection
    /\ out = NoFeature
    /\ obs = NoObs
    /\ calls = <<>>
    /\ fdw = NoFdw
    /\ xl = NoXl
    /\ en = NoEn
    /\ ra = NoRa
    /\ geo = NoGeo
    /\ row = NoRow

-----------------------------------------------------------------------------
(* The scan as the host drives it through the FDW callbacks.  The statement
   (table options, clauses, target list) is given before planning starts. *)

Statement(options, clauses, target) ==
    [NoFdw EXCEPT !.options = options, !.clauses = clauses, !.target = target]

\* the scans of a COUNT over every table and clause list
Init ==
    /\ pc = "start"
    /\ fdw \in {Statement(o, c, {}) : o \in TableOptions, c \in ClauseLists}
    /\ conn = NoConnection /\ out = NoFeature /\ obs = NoObs /\ calls = <<>>
    /\ xl = NoXl /\ en = NoEn /\ ra = NoRa /\ geo = NoGeo /\ row = NoRow

geodeskGetForeignRelSize ==
    /\ pc = "start"
    /\ fdw' = [fdw EXCEPT !.fpinfo = GetForeignRelSize(fdw.options, fdw.clauses),
                          !.attrs_used =
                              AttrsUsed(GetForeignRelSize(fdw.options, fdw.clauses),
                                        fdw.target, fdw.clauses)]
    /\ pc' = "sized"
    /\ UNCHANGED <<conn, out, obs, calls, xl, en, ra, geo, row>>

geodeskGetForeignPlan ==
    /\ pc = "sized"
    /\ fdw' = [fdw EXCEPT
                  !.local_exprs = GetForeignPlan(fdw.fpinfo, fdw.clauses).local_exprs,
                  !.remote_exprs = GetForeignPlan(fdw.fpinfo, fdw.clauses).remote_exprs,
                  !.retrieved_attrs = RetrievedAttrs(fdw.attrs_used)]
    /\ pc' = "planned"
    /\ UNCHANGED <<conn, out, obs, calls, xl, en, ra, geo, row>>

geodeskBeginForeignScan ==
    /\ pc = "planned"
    /\ conn' = BeginForeignScan(fdw.fpinfo)
    /\ calls' = BeginCalls(fdw.fpinfo)
    /\ obs' = NoObs
    /\ fdw' = [fdw EXCEPT !.needs_geometry = NeedsGeometry(fdw.retrieved_attrs)]
    /\ pc' = IF conn'.handle THEN "scan" ELSE "error"
    /\ UNCHANGED <<out, xl, en, ra, geo, row>>

geodeskIterateForeignScan ==
    /\ pc = "scan"
    /\ ~obs.ended
    /\ conn' = geodesk_get_next_feature(conn).conn
    /\ out' = geodesk_get_next_feature(conn).out
    /\ obs' = Observe(obs, out')
    /\ row' = IF out'.found
              THEN BuildTuple(fdw.retrieved_attrs, fdw.needs_geometry, conn', out')
              ELSE NoRow
    /\ UNCHANGED <<pc, calls, fdw, xl, en, ra, geo>>

geodeskReScanForeignScan ==
    /\ pc = "scan"
    /\ obs.resets < MaxResets
    /\ conn' = IF conn.handle THEN geodesk_reset_iteration(conn) ELSE conn
    /\ obs' = ObserveReset(obs)
    /\ UNCHANGED <<pc, out, calls, fdw, xl, en, ra, geo, row>>

geodeskEndForeignScan ==
    /\ pc \in {"scan", "ended"}
    /\ conn' = EndForeignScan(conn)
    /\ pc' = "ended"
    /\ out' = NoFeature
    /\ obs' = NoObs
    /\ UNCHANGED <<calls, fdw, xl, en, ra, geo, row>>

Next ==
    \/ geodeskGetForeignRelSize
    \/ geodeskGetForeignPlan
    \/ geodeskBeginForeignScan
    \/ geodeskIterateForeignScan
    \/ geodeskReScanForeignScan
    \/ geodeskEndForeignScan

Spec == Init /\ [][Next]_vars

\* the scans of one plain table with at most one clause, for every target list
RowClauseLists == UNION {[1..k -> ScanClauses] : k \in 0..1}

InitRow ==
    /\ pc = "start"
    /\ fdw \in {Statement([datasource |-> GoodPath, query |-> NullStr,
                           goql_filter |-> NullStr], c, t) :
                    c \in RowClauseLists, t \in Targets}
    /\ conn = NoConnection /\ out = NoFeature /\ obs = NoObs /\ calls = <<>>
    /\ xl = NoXl /\ en = NoEn /\ ra = NoRa /\ geo = NoGeo /\ row = NoRow

SpecRow == InitRow /\ [][Next]_vars

\* the same callbacks for statements over one plain table whose clauses are
\* spatial tests against three boxes, alone or with a tag test
BoxC == <<0, 0, 10, 4>>
BoxClauses ==
    {Overlaps(ATT_geom, Geom(b)) : b \in {BoxA, BoxB, BoxC}}
    \cup {Has(ATT_tags, K_name)}
BoxClauseLists == SeqsUpTo(BoxClauses, MaxClauses)

InitBox ==
    /\ pc = "start"
    /\ fdw \in {Statement([datasource |-> GoodPath, query |-> NullStr,
                           goql_filter |-> NullStr], c, {}) : c \in BoxClauseLists}
    /\ conn = NoConnection /\ out = NoFeature /\ obs = NoObs /\ calls = <<>>
    /\ xl = NoXl /\ en = NoEn /\ ra = NoRa /\ geo = NoGeo /\ row = NoRow

SpecBox == InitBox /\ [][Next]_vars

-----------------------------------------------------------------------------
(* The bridge driven directly: the filters set in either order before the  *)
(* cursor is first built, then any interleaving of next and reset          *)

G_building_yes == <<"[">> \o K_building \o <<"=">> \o V_yes \o <<"]">>
G_name_any == <<"[">> \o K_name \o <<"=", "*", "]">>

ConnQueries == {<<>>, Q_named}
ConnGoqls == {NullStr, G_building_yes, G_name_any}
ConnPrefixes == {<<"*">>, <<"n">>, <<"w", "a">>}

Called(fn) == \E i \in 1..Len(calls) : calls[i].fn = fn

InitConn == pc = "closed" /\ Idle

Open ==
    /\ pc = "closed"
    /\ \E query \in ConnQueries :
           /\ conn' = geodesk_open(GoodPath, query)
           /\ calls' = <<Call("geodesk_open", query, <<>>)>>
    /\ pc' = "setup"
    /\ UNCHANGED <<out, obs, fdw, xl, en, ra, geo, row>>

SetSpatialFilter ==
    /\ pc = "setup"
    /\ ~Called("geodesk_set_spatial_filter")
    /\ \E mbox \in Boxes :
           /\ conn' = geodesk_set_spatial_filter(conn, mbox)
           /\ calls' = Append(calls, Call("geodesk_set_spatial_filter", <<>>,
                                          ImpBox(mbox)))
    /\ UNCHANGED <<pc, out, obs, fdw, xl, en, ra, geo, row>>

SetGoqlFilterWithPrefix ==
    /\ pc = "setup"
    /\ ~Called("geodesk_set_goql_filter_with_prefix")
    /\ \E goql \in ConnGoqls, type_prefix \in ConnPrefixes :
           /\ conn' = geodesk_set_goql_filter_with_prefix(conn, goql, type_prefix)
           /\ calls' = Append(calls, Call("geodesk_set_goql_filter_with_prefix",
                                          FullQuery(goql, type_prefix), <<>>))
    /\ UNCHANGED <<pc, out, obs, fdw, xl, en, ra, geo, row>>

ResetIteration ==
    /\ pc \in {"setup", "iter"}
    /\ obs.resets < MaxResets + 1
    /\ conn' = geodesk_reset_iteration(conn)
    /\ obs' = IF pc = "setup" THEN [obs EXCEPT !.resets = @ + 1]
              ELSE ObserveReset(obs)
    /\ pc' = "iter"
    /\ UNCHANGED <<out, calls, fdw, xl, en, ra, geo, row>>

GetNextFeature ==
    /\ pc \in {"setup", "iter"}
    /\ conn' = geodesk_get_next_feature(conn).conn
    /\ out' = geodesk_get_next_feature(conn).out
    /\ obs' = Observe(obs, out')
    /\ pc' = "iter"
    /\ UNCHANGED <<calls, fdw, xl, en, ra, geo, row>>

Close ==
    /\ pc = "iter"
    /\ conn' = geodesk_close(conn)
    /\ pc' = "released"
    /\ out' = NoFeature
    /\ obs' = NoObs
    /\ UNCHANGED <<calls, fdw, xl, en, ra, geo, row>>

NextConn ==
    \/ Open
    \/ SetSpatialFilter
    \/ SetGoqlFilterWithPrefix
    \/ ResetIteration
    \/ GetNextFeature
    \/ Close

SpecConn == InitConn /\ [][NextConn]_vars

-----------------------------------------------------------------------------
(* One clause through the translator *)

TypeConsts == {Int4(k) : k \in -1..3} \cup {Int8(1), Null("INT4"), Text(V_x)}
TagConsts == {Text(v) : v \in Values} \cup {Null("TEXT"), Int4(1)}

NonEmptySeqsUpTo(S, n) == UNION {[1..k -> S] : k \in 1..n}

\* membership lists that hold a null, a parameter or a constant of another type
TypeElems == {Int4(0), Int4(1), Int4(2), Null("INT4"), Param(Int4(1))}
TagElems == {Text(V_x), Text(V_yes), Null("TEXT"), Param(Text(V_z)), Int4(1)}
MembershipExprs ==
    {In(Var(ATT_type), es) : es \in NonEmptySeqsUpTo(TypeElems, MaxInList)}
    \cup {In(Arrow(ATT_tags, k), es) :
              k \in Keys, es \in NonEmptySeqsUpTo(TagElems, MaxInList)}

\* the operators of the tag and spatial filters applied to each JSONB column
\* and to the geometry column, to a function of it and to a constant
ColumnExprs ==
    {Eq(Arrow(col, k), Text(V_x)) : col \in {ATT_members, ATT_parents}, k \in Keys}
    \cup {In(Arrow(col, K_name), <<Text(V_x), Text(V_z)>>) : col \in {ATT_members, ATT_parents}}
    \cup {Has(col, k) : col \in {ATT_members, ATT_parents}, k \in Keys}
    \cup {NullTest("IS_NOT_NULL", Arrow(col, K_name)) : col \in {ATT_members, ATT_parents}}
    \cup {Overlaps(ATT_geom, Geom(b)) : b \in Boxes}
    \cup {OpExpr("&&", "geometry_overlaps", <<Expand(ATT_geom, d), Geom(b)>>) :
              d \in {50}, b \in Boxes}
    \cup {OpExpr("&&", "geometry_overlaps", <<Geom(b), Var(ATT_geom)>>) : b \in Boxes}

\* tag values that hold characters of the filter language
SpecialValues ==
    {<<"*">>, V_x \o <<",">> \o V_z, V_x \o <<"]">>, <<"[">> \o V_x,
     V_x \o <<"=">> \o V_z}

XlExprs ==
    {Eq(Var(a), c) : a \in {ATT_type, ATT_is_area}, c \in TypeConsts}
    \cup {Eq(c, Var(ATT_type)) : c \in TypeConsts}
    \cup {Ne(Var(ATT_type), Int4(0))}
    \cup {In(Var(ATT_type), es) :
              es \in NonEmptySeqsUpTo({Int4(k) : k \in {0, 1, 2, 3}}, MaxInList)}
    \cup {NotIn(Var(ATT_type), <<Int4(0), Int4(1)>>)}
    \cup {Eq(Arrow(ATT_tags, k), c) : k \in Keys, c \in TagConsts}
    \cup {Eq(c, Arrow(ATT_tags, k)) : k \in Keys, c \in TagConsts}
    \cup {In(Arrow(ATT_tags, k), es) :
              k \in Keys, es \in NonEmptySeqsUpTo({Text(v) : v \in Values}, MaxInList)}
    \cup {Has(ATT_tags, k) : k \in Keys}
    \cup {NullTest(t, Arrow(ATT_tags, k)) : t \in {"IS_NOT_NULL", "IS_NULL"}, k \in Keys}
    \cup {BoolExpr("NOT", <<Has(ATT_tags, k)>>) : k \in Keys}
    \cup MembershipExprs
    \cup ColumnExprs
    \cup {Eq(Arrow(ATT_tags, k), Text(v)) : k \in Keys, v \in SpecialValues}

PlainTable == [datasource |-> GoodPath, query |-> NullStr, goql_filter |-> NullStr]

InitXl ==
    /\ pc = "translate"
    /\ conn = NoConnection
    /\ out = NoFeature
    /\ obs = NoObs
    /\ calls = <<>>
    /\ fdw = NoFdw
    /\ en = NoEn
    /\ ra = NoRa
    /\ geo = NoGeo
    /\ row = NoRow
    /\ \E e \in XlExprs : xl = [NoXl EXCEPT !.expr = e]

\* the planner run on a table without options and the single clause xl.expr
Translate ==
    /\ pc = "translate"
    /\ LET fp == GetForeignRelSize(PlainTable, <<xl.expr>>)
           plan == GetForeignPlan(fp, <<xl.expr>>)
       IN  xl' = [xl EXCEPT !.done = TRUE,
                            !.type_prefix =
                                extract_type_filter_prefix(<<xl.expr>>).prefix,
                            !.goql = extract_goql_from_clauses(<<xl.expr>>),
                            !.has_spatial_filter = fp.has_spatial_filter,
                            !.bbox = fp.bbox,
                            !.local_exprs = plan.local_exprs,
                            !.remote_exprs = plan.remote_exprs]
    /\ pc' = "translated"
    /\ UNCHANGED <<conn, out, obs, calls, fdw, en, ra, geo, row>>

NextXl == Translate

SpecXl == InitXl /\ [][NextXl]_vars

-----------------------------------------------------------------------------
(* Member and parent enumeration.  The members (parents, way nodes) of the
   current feature are numbered 1..n in the store's order; a step of the
   specification is one iteration of the function's for loop. *)

MAX_MEMBERS == 1000
MAX_PARENTS == 100

\* the loop of geodesk_get_members_jsonb_direct: NULL for a non-relation and
\* for a relation without members, otherwise at most MAX_MEMBERS entries
geodesk_get_members_jsonb_direct(e) ==
    IF e.type # 2 \/ e.n = 0 THEN [e EXCEPT !.done = TRUE, !.result = "null"]
    ELSE IF e.pos = e.n THEN [e EXCEPT !.done = TRUE, !.result = "array"]
    ELSE IF e.count + 1 > MAX_MEMBERS
         THEN [e EXCEPT !.count = @ + 1, !.warnings = @ + 1, !.done = TRUE,
                        !.result = "array"]
         ELSE [e EXCEPT !.count = @ + 1, !.pos = @ + 1,
                        !.emitted = Append(@, e.pos + 1)]

\* a loop that stops one entry early (C11 must tell it apart)
geodesk_get_parents_jsonb_direct_early(e) ==
    IF e.n = 0 THEN [e EXCEPT !.done = TRUE, !.result = "null"]
    ELSE IF e.pos = e.n THEN [e EXCEPT !.done = TRUE, !.result = "array"]
    ELSE IF e.count + 1 >= MAX_PARENTS
         THEN [e EXCEPT !.count = @ + 1, !.warnings = @ + 1, !.done = TRUE,
                        !.result = "array"]
         ELSE [e EXCEPT !.count = @ + 1, !.pos = @ + 1,
                        !.emitted = Append(@, e.pos + 1)]

\* the loop of geodesk_get_parents_jsonb_direct
geodesk_get_parents_jsonb_direct(e) ==
    IF e.n = 0 THEN [e EXCEPT !.done = TRUE, !.result = "null"]
    ELSE IF e.pos = e.n THEN [e EXCEPT !.done = TRUE, !.result = "array"]
    ELSE IF e.count + 1 > MAX_PARENTS
         THEN [e EXCEPT !.count = @ + 1, !.warnings = @ + 1, !.done = TRUE,
                        !.result = "array"]
         ELSE [e EXCEPT !.count = @ + 1, !.pos = @ + 1,
                        !.emitted = Append(@, e.pos + 1)]

\* the loops of geodesk_get_members_json: nothing for a node, every member of
\* a relation, every node of a way; no counter
geodesk_get_members_json(e) ==
    IF e.type = 0 THEN [e EXCEPT !.done = TRUE, !.result = "null"]
    ELSE IF e.pos = e.n THEN [e EXCEPT !.done = TRUE, !.result = "array"]
    ELSE [e EXCEPT !.pos = @ + 1, !.emitted = Append(@, e.pos + 1)]

MemberSizes == {0, 2} \cup {MAX_MEMBERS - 1 + k : k \in 0..MaxOver}
ParentSizes == {0, 2} \cup {MAX_PARENTS - 1 + k : k \in 0..MaxOver}

EnumInputs ==
    {[fn |-> "geodesk_get_members_jsonb_direct", type |-> 2, n |-> n] :
         n \in MemberSizes}
    \cup {[fn |-> "geodesk_get_members_jsonb_direct", type |-> t, n |-> 2] :
         t \in {0, 1}}
    \cup {[fn |-> "geodesk_get_parents_jsonb_direct", type |-> t, n |-> n] :
         t \in {0, 1, 2}, n \in ParentSizes}
    \cup {[fn |-> "geodesk_get_members_json", type |-> 2, n |-> n] :
         n \in MemberSizes}
    \cup {[fn |-> "geodesk_get_members_json", type |-> 1, n |-> 2],
          [fn |-> "geodesk_get_members_json", type |-> 0, n |-> 0]}

InitEnum ==
    /\ pc = "enum"
    /\ conn = NoConnection
    /\ out = NoFeature
    /\ obs = NoObs
    /\ calls = <<>>
    /\ fdw = NoFdw
    /\ xl = NoXl
    /\ ra = NoRa
    /\ geo = NoGeo
    /\ row = NoRow
    /\ \E i \in EnumInputs :
           en = [NoEn EXCEPT !.fn = i.fn, !.type = i.type, !.n = i.n]

EnumStep(fn, e) ==
    /\ pc = "enum"
    /\ en.fn = fn
    /\ en' = e
    /\ pc' = IF e.done THEN "enumerated" ELSE "enum"
    /\ UNCHANGED <<conn, out, obs, calls, fdw, xl, ra, geo, row>>

GetMembersJsonbDirect ==
    EnumStep("geodesk_get_members_jsonb_direct", geodesk_get_members_jsonb_direct(en))

GetParentsJsonbDirect ==
    EnumStep("geodesk_get_parents_jsonb_direct", geodesk_get_parents_jsonb_direct(en))

GetMembersJson ==
    EnumStep("geodesk_get_members_json", geodesk_get_members_json(en))

NextEnum ==
    \/ GetMembersJsonbDirect
    \/ GetParentsJsonbDirect
    \/ GetMembersJson

SpecEnum == InitEnum /\ [][NextEnum]_vars

-----------------------------------------------------------------------------
(* Ring assembly on the member ways of one role.  The ways are fragments of
   the unit square P0 P1 P2 P3 in both directions, fragments that cannot be
   closed, fragments whose ends lie just inside and exactly at the snapping
   tolerance, and complete rings stored with the AREA flag. *)

MaxWays == 3

P0 == <<0, 0>>
P1 == <<1000, 0>>
P2 == <<1000, 1000>>
P3 == <<0, 1000>>

WayCatalogue ==
    << Way(101, <<P0, P1>>, FALSE),
       Way(102, <<P1, P2, P3, P0>>, FALSE),
       Way(103, <<P0, P3, P2, P1>>, FALSE),
       Way(104, <<P1, P2>>, FALSE),
       Way(105, <<P2, P3, P0>>, FALSE),
       Way(106, <<P1, P0>>, FALSE),
       Way(107, <<<<600, 600>>, <<800, 600>>, <<800, 800>>>>, FALSE),
       Way(108, <<<<300, 300>>, <<500, 300>>, <<500, 500>>, <<350, 350>>>>, FALSE),
       Way(109, <<<<300, 100>>, <<500, 100>>, <<500, 200>>, <<400, 100>>>>, FALSE),
       Way(110, <<<<200, 200>>, <<400, 200>>, <<400, 400>>, <<200, 400>>>>, TRUE),
       Way(111, <<<<700, 100>>, <<900, 100>>>>, FALSE),
       Way(112, <<P2, P3, P2>>, FALSE) >>

WayLists ==
    UNION {[1..n -> {WayCatalogue[k] : k \in 1..Len(WayCatalogue)}] : n \in 0..MaxWays}

InitRing ==
    /\ pc = "ring_start"
    /\ ra \in {[NoRa EXCEPT !.ways = w] : w \in WayLists}
    /\ conn = NoConnection /\ out = NoFeature /\ obs = NoObs /\ calls = <<>>
    /\ fdw = NoFdw /\ xl = NoXl /\ en = NoEn /\ geo = NoGeo /\ row = NoRow

\* lines 117-126: nothing for no ways, else one ring per way
CreateRings ==
    /\ pc = "ring_start"
    /\ IF ra.ways = <<>>
       THEN /\ ra' = [ra EXCEPT !.done = TRUE]
            /\ pc' = "ring_done"
       ELSE /\ ra' = [ra EXCEPT !.rings = InitialRings(ra.ways)]
            /\ pc' = "ring_merge"
    /\ UNCHANGED <<conn, out, obs, calls, fdw, xl, en, geo, row>>

\* one pass of the while loop of lines 130-176
MergeRings ==
    /\ pc = "ring_merge"
    /\ LET pass == MergePass(ra.rings)
       IN  IF pass.merged
           THEN /\ ra' = [ra EXCEPT !.rings = pass.rings, !.passes = @ + 1]
                /\ pc' = "ring_merge"
           ELSE /\ ra' = ra
                /\ pc' = "ring_collect"
    /\ UNCHANGED <<conn, out, obs, calls, fdw, xl, en, geo, row>>

\* lines 178-233: close or discard what is left, convert, return
CollectAndConvert ==
    /\ pc = "ring_collect"
    /\ LET c == CollectRings(ra.rings)
       IN  ra' = [ra EXCEPT !.complete = c.complete, !.diags = c.diags,
                            !.result = ConvertRings(c.complete), !.done = TRUE]
    /\ pc' = "ring_done"
    /\ UNCHANGED <<conn, out, obs, calls, fdw, xl, en, geo, row>>

NextRing ==
    \/ CreateRings
    \/ MergeRings
    \/ CollectAndConvert

SpecRing == InitRing /\ [][NextRing]_vars

\* the fragments of the square, a stray fragment, a complete ring and a
\* fragment that runs out and back
LiveWays == {WayCatalogue[k] : k \in {1, 2, 4, 5, 6, 7, 10, 12}}

\* the same call seen from its caller, which collects the ways of one role
\* and then hands the list over
InitRingLive ==
    /\ pc = "ring_call"
    /\ ra = NoRa
    /\ conn = NoConnection /\ out = NoFeature /\ obs = NoObs /\ calls = <<>>
    /\ fdw = NoFdw /\ xl = NoXl /\ en = NoEn /\ geo = NoGeo /\ row = NoRow

\* the caller's member loop: one more way of the role
PushWay ==
    /\ pc = "ring_call"
    /\ Len(ra.ways) < MaxWays
    /\ \E w \in LiveWays : ra' = [ra EXCEPT !.ways = Append(@, w)]
    /\ UNCHANGED <<pc, conn, out, obs, calls, fdw, xl, en, geo, row>>

\* line 115: the call with its argument
CallAssembleRings ==
    /\ pc = "ring_call"
    /\ pc' = "ring_start"
    /\ UNCHANGED <<ra, conn, out, obs, calls, fdw, xl, en, geo, row>>

NextRingLive ==
    \/ PushWay
    \/ CallAssembleRings
    \/ CreateRings
    \/ MergeRings
    \/ CollectAndConvert

\* the member list is finite and geodesk_assemble_rings is one call: once
\* entered it runs every statement up to its return, so a step that is
\* enabled is eventually taken
SpecRingLive == InitRingLive /\ [][NextRingLive]_vars /\ WF_vars(NextRingLive)

\* The assembler on one open way of 3 coordinates whose ends lie anywhere in
\* the 32-bit range of the store: the antimeridian is x = INT_MIN = INT_MAX+1
WideValues ==
    {INT_MIN, -2147483600, -1073741824, -1000, 0, 50, 1000, 1073741824,
     2147483600, INT_MAX}
NearValues == {0, 50, 200}

WideWays ==
    {<<Way(120, <<<<fx, fy>>, <<0, 5000>>, <<lx, ly>>>>, FALSE)>> :
        fx \in WideValues, lx \in WideValues, fy \in NearValues, ly \in NearValues}

InitGap ==
    /\ pc = "ring_start"
    /\ ra \in {[NoRa EXCEPT !.ways = w] : w \in WideWays}
    /\ conn = NoConnection /\ out = NoFeature /\ obs = NoObs /\ calls = <<>>
    /\ fdw = NoFdw /\ xl = NoXl /\ en = NoEn /\ geo = NoGeo /\ row = NoRow

\* lines 178-212 for the one ring that is left; the conversion to metres is
\* left out, ra.result stays empty
CollectWide ==
    /\ pc = "ring_collect"
    /\ Len(ra.rings) = 1 /\ ~ra.rings[1].null
    /\ LET ring == ra.rings[1]
       IN  \E dxBelow \in GapBelowOutcomes(firstCoord(ring)[1], lastCoord(ring)[1]),
              dyBelow \in GapBelowOutcomes(firstCoord(ring)[2], lastCoord(ring)[2]) :
               LET cd == CloseWithGap(ring, dxBelow, dyBelow)
               IN  ra' = [ra EXCEPT !.complete = IF cd.keep THEN <<cd.ring>> ELSE <<>>,
                                    !.diags = cd.diag,
                                    !.done = TRUE]
    /\ pc' = "ring_done"
    /\ UNCHANGED <<conn, out, obs, calls, fdw, xl, en, geo, row>>

NextGap ==
    \/ CreateRings
    \/ MergeRings
    \/ CollectWide

SpecGap == InitGap /\ [][NextGap]_vars

-----------------------------------------------------------------------------
(* One geometry built for the cached feature: nodes, the ways of the ring
   catalogue, and relations over a catalogue of members: nested shells
   (squares 0..1000 and 400..600), the two fragments of the unit square, a
   shell fragment that cannot be closed, holes inside the large shell, inside
   the small one, across the border of the large one and outside both, and
   members the builder has to ignore. *)

MaxMembers == 3

Square(lo, hi) == <<<<lo, lo>>, <<hi, lo>>, <<hi, hi>>, <<lo, hi>>>>

MemberCatalogue ==
    << Member("way", Way(201, Square(0, 1000), TRUE), "outer", FALSE),
       Member("way", Way(202, Square(400, 600), TRUE), "outer", FALSE),
       Member("way", WayCatalogue[1], "outer", FALSE),
       Member("way", WayCatalogue[2], "outer", FALSE),
       Member("way", WayCatalogue[7], "outer", FALSE),
       Member("way", Way(203, Square(200, 800), TRUE), "inner", FALSE),
       Member("way", Way(204, Square(450, 550), TRUE), "inner", FALSE),
       Member("way", Way(205, Square(300, 350) \o <<<<300, 300>>>>, FALSE), "inner", FALSE),
       Member("way", Way(206, Square(900, 1100), TRUE), "inner", FALSE),
       Member("way", Way(207, Square(1100, 1200), TRUE), "inner", FALSE),
       Member("way", Way(208, Square(100, 900), TRUE), "label", FALSE),
       Member("node", Way(0, <<>>, FALSE), "outer", FALSE),
       Member("way", WayCatalogue[2], "outer", TRUE) >>

MemberLists ==
    UNION {[1..n -> {MemberCatalogue[k] : k \in 1..Len(MemberCatalogue)}] :
              n \in 0..MaxMembers}

GeoFeatures ==
    {Node(1, 0, 0), Node(2, 500, -300)}
    \cup {WayFeature(WayCatalogue[k]) : k \in 1..Len(WayCatalogue)}
    \cup {Relation(300, TRUE, ms) : ms \in MemberLists}
    \cup {Relation(301, FALSE, ms) : ms \in {m \in MemberLists : Len(m) <= 1}}

GeoInputs ==
    {[NoGeo EXCEPT !.feature = f] : f \in GeoFeatures}
    \cup {[NoGeo EXCEPT !.feature = [Node(1, 0, 0) EXCEPT !.cached = FALSE]],
          [NoGeo EXCEPT !.feature = Relation(300, TRUE, <<MemberCatalogue[1]>>),
                        !.store = FALSE]}

InitGeom ==
    /\ pc = "geom"
    /\ geo \in GeoInputs
    /\ conn = NoConnection /\ out = NoFeature /\ obs = NoObs /\ calls = <<>>
    /\ fdw = NoFdw /\ xl = NoXl /\ en = NoEn /\ ra = NoRa /\ row = NoRow

BuildLwgeom ==
    /\ pc = "geom"
    /\ LET r == geodesk_build_lwgeom(geo.feature, geo.store)
       IN  geo' = [geo EXCEPT !.geom = r.geom, !.warnings = r.warnings, !.done = TRUE]
    /\ pc' = "geom_done"
    /\ UNCHANGED <<conn, out, obs, calls, fdw, xl, en, ra, row>>

NextGeom == BuildLwgeom

SpecGeom == InitGeom /\ [][NextGeom]_vars

-----------------------------------------------------------------------------
(* The tags column byte by byte: geodesk_get_tags_json writes the JSON text
   of the tags of the cached feature, jsonb_in reads it.  A string is a
   sequence of bytes 0..255; the texts below are valid UTF-8.  Whether plain
   char is signed is a property of the build. *)

MaxTagLen == 2

\* the characters tag texts are made of: backspace, tab, two control
\* characters without a short escape, space, quote, backslash, A, DEL, and
\* the two- and three-byte characters u-umlaut and U+4E2D
TagChars ==
    {<<8>>, <<9>>, <<1>>, <<31>>, <<32>>, <<34>>, <<92>>, <<65>>, <<127>>,
     <<195, 188>>, <<228, 184, 173>>}

RECURSIVE TextsUpTo(_)
TextsUpTo(n) ==
    IF n = 0 THEN {<<>>}
    ELSE TextsUpTo(n - 1) \cup {t \o c : t \in TextsUpTo(n - 1), c \in TagChars}

\* the tag lists of a feature: one tag name=text, one tag with a non-ASCII
\* key, and two tags
TagLists ==
    {<<[key |-> <<110>>, value |-> v]>> : v \in TextsUpTo(MaxTagLen)}
    \cup {<<[key |-> k, value |-> <<65>>]>> : k \in TextsUpTo(1) \ {<<>>}}
    \cup {<<[key |-> <<110>>, value |-> v], [key |-> <<111>>, value |-> <<195, 188>>]>> :
              v \in TextsUpTo(1)}

\* the value of `char c` holding byte b
CharOf(b, char_signed) == IF char_signed /\ b >= 128 THEN b - 256 ELSE b

\* the branches of the escaping loop for one char
EscapeChar(b, char_signed) ==
    LET c == CharOf(b, char_signed)
    IN  IF c = 34 THEN <<92, 34>>
        ELSE IF c = 92 THEN <<92, 92>>
        ELSE IF c = 10 THEN <<92, 110>>
        ELSE IF c = 13 THEN <<92, 114>>
        ELSE IF c = 9 THEN <<92, 116>>
        ELSE IF c = 8 THEN <<92, 98>>
        ELSE IF c = 12 THEN <<92, 102>>
        ELSE IF c < 32 THEN <<>>
        ELSE <<b>>

RECURSIVE EscapeText(_, _)
EscapeText(t, char_signed) ==
    IF t = <<>> THEN <<>>
    ELSE EscapeChar(Head(t), char_signed) \o EscapeText(Tail(t), char_signed)

\* geodesk_get_tags_json: {"key":"value",...}
RECURSIVE TagsJsonText(_, _, _)
TagsJsonText(tags, first, char_signed) ==
    IF tags = <<>> THEN <<>>
    ELSE (IF first THEN <<>> ELSE <<44>>)
         \o <<34>> \o EscapeText(Head(tags).key, char_signed) \o <<34, 58>>
         \o <<34>> \o EscapeText(Head(tags).value, char_signed) \o <<34>>
         \o TagsJsonText(Tail(tags), FALSE, char_signed)

geodesk_get_tags_json(tags, char_signed) ==
    <<123>> \o TagsJsonText(tags, TRUE, char_signed) \o <<125>>

\* jsonb_in, a string: from the byte after the opening quote to the closing
\* quote; a raw control character or an unknown escape is an error
Unescape(b) ==
    CASE b = 110 -> 10 [] b = 114 -> 13 [] b = 116 -> 9 [] b = 98 -> 8
      [] b = 102 -> 12 [] b \in {34, 92, 47} -> b [] OTHER -> -1

RECURSIVE ReadString(_, _, _)
ReadString(s, i, acc) ==
    IF i > Len(s) THEN [ok |-> FALSE, str |-> acc, next |-> i]
    ELSE IF s[i] = 34 THEN [ok |-> TRUE, str |-> acc, next |-> i + 1]
    ELSE IF s[i] < 32 THEN [ok |-> FALSE, str |-> acc, next |-> i]
    ELSE IF s[i] = 92
    THEN IF i + 1 > Len(s) \/ Unescape(s[i + 1]) < 0
         THEN [ok |-> FALSE, str |-> acc, next |-> i]
         ELSE ReadString(s, i + 2, Append(acc, Unescape(s[i + 1])))
    ELSE ReadString(s, i + 1, Append(acc, s[i]))

\* jsonb_in, the members of an object from position i on; of two members
\* with one key the later one stays
RECURSIVE ReadMembers(_, _, _)
ReadMembers(s, i, obj) ==
    IF i > Len(s) \/ s[i] # 34 THEN [ok |-> FALSE, obj |-> obj]
    ELSE LET k == ReadString(s, i + 1, <<>>)
         IN  IF ~k.ok \/ k.next + 1 > Len(s) \/ s[k.next] # 58 \/ s[k.next + 1] # 34
             THEN [ok |-> FALSE, obj |-> obj]
             ELSE LET v == ReadString(s, k.next + 2, <<>>)
                      o == {m \in obj : m.key # k.str}
                               \cup {[key |-> k.str, value |-> v.str]}
                  IN  IF ~v.ok \/ v.next > Len(s) THEN [ok |-> FALSE, obj |-> obj]
                      ELSE IF s[v.next] = 125 /\ v.next = Len(s)
                      THEN [ok |-> TRUE, obj |-> o]
                      ELSE IF s[v.next] = 44 THEN ReadMembers(s, v.next + 1, o)
                      ELSE [ok |-> FALSE, obj |-> obj]

\* jsonb_in on the text of an object: its members as key/value pairs
jsonb_in(s) ==
    IF Len(s) < 2 \/ s[1] # 123 THEN [ok |-> FALSE, obj |-> {}]
    ELSE IF s = <<123, 125>> THEN [ok |-> TRUE, obj |-> {}]
    ELSE ReadMembers(s, 2, {})

NoTagRow == [tags |-> <<>>, char_signed |-> FALSE, json |-> <<>>,
             jsonb |-> [ok |-> FALSE, obj |-> {}], step |-> "cached"]

InitTags ==
    /\ pc = "tags"
    /\ row \in {[NoTagRow EXCEPT !.tags = t, !.char_signed = b] :
                    t \in TagLists, b \in BOOLEAN}
    /\ conn = NoConnection /\ out = NoFeature /\ obs = NoObs /\ calls = <<>>
    /\ fdw = NoFdw /\ xl = NoXl /\ en = NoEn /\ ra = NoRa /\ geo = NoGeo

\* geodeskIterateForeignScan, the tags column: the call of geodesk_get_tags_json
GetTagsJson ==
    /\ pc = "tags"
    /\ row.step = "cached"
    /\ row' = [row EXCEPT !.json = geodesk_get_tags_json(row.tags, row.char_signed),
                          !.step = "json"]
    /\ UNCHANGED <<pc, conn, out, obs, calls, fdw, xl, en, ra, geo>>

\* geodeskIterateForeignScan, the tags column: DirectFunctionCall1(jsonb_in, ...)
JsonbIn ==
    /\ pc = "tags"
    /\ row.step = "json"
    /\ row' = [row EXCEPT !.jsonb = jsonb_in(row.json), !.step = "datum"]
    /\ UNCHANGED <<pc, conn, out, obs, calls, fdw, xl, en, ra, geo>>

NextTags ==
    \/ GetTagsJson
    \/ JsonbIn

SpecTags == InitTags /\ [][NextTags]_vars

-----------------------------------------------------------------------------
(* Properties *)

FeatureOf(id) == Store[CHOOSE i \in Idx : Store[i].id = id]

\* the calls of one bridge function made so far
CallsOf(fn) == {calls[i] : i \in {j \in 1..Len(calls) : calls[j].fn = fn}}

\* C1: when a bounding box and a filter string have both been set on a
\* connection, in either order, every record the cursor returns lies in the
\* box, belongs to a class of the type token and matches every tag fragment.
\* (SpecConn)
C1_ReturnedSatisfiesAllFilters ==
    (/\ pc = "iter"
     /\ out.found
     /\ Called("geodesk_set_spatial_filter")
     /\ Called("geodesk_set_goql_filter_with_prefix"))
    => /\ \A c \in CallsOf("geodesk_set_spatial_filter") :
              InBox(FeatureOf(out.id), c.box)
       /\ \A c \in CallsOf("geodesk_set_goql_filter_with_prefix") :
              ParseQuery(c.q).ok => MatchesQuery(FeatureOf(out.id), ParseQuery(c.q))

\* C2: when the table has a query option, every row a scan returns matches
\* that query, whatever the clauses of the statement are.  (Spec)
C2_QueryOptionRestrictsScan ==
    (pc = "scan" /\ out.found /\ fdw.options.query # NullStr)
    => MatchesQuery(FeatureOf(out.id), ParseQuery(fdw.options.query))

\* one type-class prefix token followed by zero or more bracketed fragments
IsStoreQuery(q) == ParseQuery(q).ok

\* C3: every filter string handed to the store is one type-class prefix token
\* followed by zero or more bracketed fragments, for every combination of the
\* goql_filter option, a type clause and tag clauses.  (Spec)
C3_StoreQueryWellFormed ==
    \A c \in CallsOf("geodesk_set_goql_filter_with_prefix") : IsStoreQuery(c.q)

\* the token of one kind, as the specification lists them
KindToken(k) ==
    CASE k = 0 -> <<"n">>
      [] k = 1 -> <<"w", "a">>
      [] k = 2 -> <<"r">>
      [] OTHER -> NullStr

\* C4: the clause  type = K  yields the token n, wa, r for K = 0, 1, 2 and is
\* consumed; for any other K there is no token and the clause stays with the
\* host.  (SpecXl)
C4_TypeEqualityToken ==
    xl.done =>
        \A k \in -1..3 :
            xl.expr = Eq(Var(ATT_type), Int4(k)) =>
                IF k \in {0, 1, 2}
                THEN /\ xl.type_prefix = KindToken(k)
                     /\ xl.remote_exprs = <<xl.expr>>
                     /\ xl.local_exprs = <<>>
                ELSE /\ xl.type_prefix = NullStr
                     /\ xl.remote_exprs = <<>>
                     /\ xl.local_exprs = <<xl.expr>>

C4_Witness ==
    /\ xl.done
    /\ xl.expr = Eq(Var(ATT_type), Int4(1))
    /\ xl.type_prefix = <<"w", "a">>

\* the token of a set of kinds, as the specification lists them
KindSetToken(S) ==
    CASE S = {0} -> <<"n">>
      [] S = {1} -> <<"w", "a">>
      [] S = {2} -> <<"r">>
      [] S = {0, 1} -> <<"n", "w", "a">>
      [] S = {0, 2} -> <<"n", "r">>
      [] S = {1, 2} -> <<"w", "a", "r">>
      [] S = {0, 1, 2} -> <<"*">>
      [] OTHER -> NullStr

\* C5: the clause  type IN (K1, ..., Kn)  over kinds 0..2 yields the token of
\* the set of kinds listed: it selects the union of the classes of the single
\* kinds, and the order and the repetitions of the list do not matter.  (SpecXl)
C5_TypeInListToken ==
    xl.done =>
        \A ks \in NonEmptySeqsUpTo({0, 1, 2}, MaxInList) :
            xl.expr = In(Var(ATT_type), [i \in 1..Len(ks) |-> Int4(ks[i])]) =>
                /\ xl.type_prefix = KindSetToken(Range(ks))
                /\ TokenClasses(xl.type_prefix) =
                       UNION {TokenClasses(KindToken(k)) : k \in Range(ks)}
                /\ xl.remote_exprs = <<xl.expr>>

C5_Witness ==
    /\ xl.done
    /\ xl.expr = In(Var(ATT_type), <<Int4(2), Int4(1), Int4(2)>>)
    /\ xl.type_prefix = <<"w", "a", "r">>

RECURSIVE JoinComma(_)
JoinComma(vs) ==
    IF Len(vs) = 1 THEN vs[1] ELSE vs[1] \o <<",">> \o JoinComma(Tail(vs))

Bracket(key, value) == <<"[">> \o key \o <<"=">> \o value \o <<"]">>

\* C6: tags ->> 'k' = 'v'  yields [k=v];  tags ->> 'k' IN ('v1', ..., 'vn')
\* yields [k=v1,...,vn];  tags ? 'k'  and  tags ->> 'k' IS NOT NULL  both yield
\* [k=*].  (SpecXl)
C6_TagFragments ==
    xl.done =>
        \A k \in Keys :
            /\ \A v \in Values :
                   xl.expr = Eq(Arrow(ATT_tags, k), Text(v))
                       => xl.goql = Bracket(k, v)
            /\ \A vs \in NonEmptySeqsUpTo(Values, MaxInList) :
                   xl.expr = In(Arrow(ATT_tags, k), [i \in 1..Len(vs) |-> Text(vs[i])])
                       => xl.goql = Bracket(k, JoinComma(vs))
            /\ xl.expr = Has(ATT_tags, k) => xl.goql = Bracket(k, <<"*">>)
            /\ xl.expr = NullTest("IS_NOT_NULL", Arrow(ATT_tags, k))
                   => xl.goql = Bracket(k, <<"*">>)

C6_Witness ==
    /\ xl.done
    /\ xl.expr = In(Arrow(ATT_tags, K_name), <<Text(V_x), Text(V_z)>>)
    /\ xl.goql = <<"[">> \o K_name \o <<"=">> \o V_x \o <<",">> \o V_z \o <<"]">>

\* the clause at position i of cs is consumed by the planner: it gave the type
\* token, the bounding box or a tag fragment
Consumed(cs, i) ==
    \/ extract_type_filter_prefix(cs).index = i
    \/ extract_bbox_from_expr(cs[i]).ok
    \/ TagFragmentOf(cs[i]) # NullStr

\* no recogniser accepts the clause
Unrecognised(c) ==
    /\ TypePrefixOf(c) = NullStr
    /\ ~extract_bbox_from_expr(c).ok
    /\ TagFragmentOf(c) = NullStr

Planned == pc \in {"planned", "scan", "error", "ended"}

\* C7: after planning every top-level clause is in exactly one of the pushed
\* and the residual list; a consumed clause is not residual; an unrecognised
\* clause is residual; an OR or NOT clause is residual and the relation info is
\* the one planning gives without it.  (Spec)
C7_ClausePartition ==
    Planned =>
        /\ Len(fdw.remote_exprs) + Len(fdw.local_exprs) = Len(fdw.clauses)
        /\ \A i \in 1..Len(fdw.clauses) :
               LET c == fdw.clauses[i]
                   pushed == \E j \in 1..Len(fdw.remote_exprs) : fdw.remote_exprs[j] = c
                   residual == \E j \in 1..Len(fdw.local_exprs) : fdw.local_exprs[j] = c
               IN  /\ pushed # residual
                   /\ Consumed(fdw.clauses, i) => ~residual
                   /\ Unrecognised(c) => residual
                   /\ IsA(c, "BoolExpr") => residual
        /\ fdw.fpinfo =
               GetForeignRelSize(fdw.options,
                                 SelectSeq(fdw.clauses, LAMBDA c : ~IsA(c, "BoolExpr")))

C7_Witness ==
    /\ pc = "planned"
    /\ Len(fdw.remote_exprs) = 1
    /\ Len(fdw.local_exprs) = 1
    /\ IsA(fdw.local_exprs[1], "BoolExpr")

\* a pass that has run to its end returned the ids of the first such pass
C8_SamePass == (pc = "iter" /\ obs.ended) => obs.cur = obs.first

\* a reset leaves the store handle, the views and the calls made as they were
C8_ResetKeepsFilters ==
    ResetIteration =>
        /\ conn'.handle = conn.handle
        /\ conn'.features = conn.features
        /\ conn'.filtered_features = conn.filtered_features
        /\ conn'.bbox_filtered_features = conn.bbox_filtered_features
        /\ calls' = calls

\* C8: after a reset at any point (before the first record, in the middle of
\* a pass, after the end) the pass run to its end returns the same ordered ids
\* as the first complete pass, and the reset neither reopens the store nor
\* changes the filters.  (SpecConn)
C8_RescanSameSequence == []C8_SamePass /\ [][C8_ResetKeepsFilters]_vars

C8_Witness ==
    /\ pc = "iter"
    /\ obs.ended
    /\ obs.first_at < obs.resets
    /\ Len(obs.cur) >= 2

\* the features of the connection's view in store order
ViewOrder(c) == ViewBegin(FeaturesToIterate(c)).rest

\* the records returned in this pass are the first records of the view in
\* order, the last one returned is in the output record, and the cursor stands
\* right after it
C9_CursorState ==
    pc = "iter" =>
        LET order == ViewOrder(conn)
            k == Len(obs.cur)
        IN  /\ k <= Len(order)
            /\ \A i \in 1..k : obs.cur[i] = Store[order[i]].id
            /\ conn.current_iter.rest = SubSeq(order, k + 1, Len(order))
            /\ (out.found /\ k > 0) =>
                   /\ out.id = Store[order[k]].id
                   /\ out.type = Store[order[k]].type
                   /\ out.is_area = Store[order[k]].is_area
            /\ obs.ended => ~out.found

\* without a reset, a cursor that has returned false returns false again
C9_StaysExhausted ==
    (pc = "iter" /\ obs.ended /\ pc' = "iter" /\ obs'.resets = obs.resets)
        => (~out'.found /\ obs'.ended)

\* C9: the cursor goes Unopened, Positioned, Exhausted: the first next() on an
\* unopened cursor returns the first record, every successful next() returns
\* the id, kind and area flag of the record and advances by one record, and
\* after next() has returned false it returns false until a reset.  (SpecConn)
C9_CursorLifecycle == []C9_CursorState /\ [][C9_StaysExhausted]_vars

C9_Witness ==
    /\ pc = "iter"
    /\ obs.ended
    /\ obs.resets = 0
    /\ Len(obs.cur) >= 3
    /\ ~out.found

\* C10: no enumeration of the members of a relation yields more than
\* MAX_MEMBERS entries and no enumeration of parents more than MAX_PARENTS,
\* whichever extraction function runs.  (SpecEnum)
C10_WithinLimit ==
    /\ (en.fn \in {"geodesk_get_members_jsonb_direct", "geodesk_get_members_json"}
            /\ en.type = 2)
           => Len(en.emitted) <= MAX_MEMBERS
    /\ en.fn = "geodesk_get_parents_jsonb_direct" => Len(en.emitted) <= MAX_PARENTS

\* the limit of the two capped extraction functions
LimitOf(fn) ==
    IF fn = "geodesk_get_parents_jsonb_direct" THEN MAX_PARENTS ELSE MAX_MEMBERS

\* C11: in geodesk_get_members_jsonb_direct and geodesk_get_parents_jsonb_direct
\* a list longer than the limit gives the first limit entries in order and
\* exactly one truncation warning, a list within the limit gives every entry and
\* no warning, and in both cases the function returns its array (no error is
\* raised); at no point of the loop is there more than one warning.  (SpecEnum)
C11_TruncatedOnceInOrder ==
    (/\ en.fn \in {"geodesk_get_members_jsonb_direct",
                   "geodesk_get_parents_jsonb_direct"}
     /\ (en.fn = "geodesk_get_members_jsonb_direct" => en.type = 2)
     /\ en.n > 0)
    => /\ en.warnings <= 1
       /\ en.done =>
              /\ en.result = "array"
              /\ IF en.n > LimitOf(en.fn)
                 THEN /\ en.emitted = [i \in 1..LimitOf(en.fn) |-> i]
                      /\ en.warnings = 1
                 ELSE /\ en.emitted = [i \in 1..en.n |-> i]
                      /\ en.warnings = 0

C11_Witness ==
    /\ en.fn = "geodesk_get_parents_jsonb_direct"
    /\ en.n = MAX_PARENTS + 1
    /\ en.done
    /\ en.warnings = 1
    /\ Len(en.emitted) = MAX_PARENTS


\* the two endpoints of every way of the list, as <<way index, coordinate>>
FragmentEnds(ways) ==
    {<<i, ways[i].stored[1]>> : i \in 1..Len(ways)}
    \cup {<<i + Len(ways), ways[i].stored[Len(ways[i].stored)]>> : i \in 1..Len(ways)}

\* the fragments that share an endpoint coordinate with a fragment of S
Touching(ways, S) ==
    {j \in 1..Len(ways) :
        \E i \in S : {ways[i].stored[1], ways[i].stored[Len(ways[i].stored)]}
                     \cap {ways[j].stored[1], ways[j].stored[Len(ways[j].stored)]} # {}}

RECURSIVE Chained(_, _, _)
Chained(ways, S, k) == IF k = 0 THEN S ELSE Chained(ways, S \cup Touching(ways, S), k - 1)

\* open fragments whose endpoints chain into one cycle
IsCycle(ways) ==
    /\ ways # <<>>
    /\ \A i \in 1..Len(ways) :
           ~ways[i].area /\ ways[i].stored[1] # ways[i].stored[Len(ways[i].stored)]
    /\ \A e \in FragmentEnds(ways) :
           Cardinality({f \in FragmentEnds(ways) : f[2] = e[2]}) = 2
    /\ Chained(ways, {1}, Len(ways)) = 1..Len(ways)

RECURSIVE SumLen(_)
SumLen(ways) == IF ways = <<>> THEN 0 ELSE (Len(Head(ways).stored) - 1) + SumLen(Tail(ways))

\* s occurs in r as a run of consecutive coordinates
Infix(s, r) == \E k \in 0..(Len(r) - Len(s)) : SubSeq(r, k + 1, k + Len(s)) = s

\* the one closed ring of a cycle of fragments
OneRingOfCycle(ways, rings) ==
    /\ Len(rings) = 1
    /\ rings[1][1] = rings[1][Len(rings[1])]
    /\ Len(rings[1]) = SumLen(ways) + 1
    /\ \A i \in 1..Len(ways) :
           \/ Infix(MmCoordsOf(ways[i].stored), rings[1])
           \/ Infix(Reverse(MmCoordsOf(ways[i].stored)), rings[1])

\* C12: (SpecRing) when the assembler has finished a list of open fragments
\* that chain into one cycle, it has returned exactly one ring; the ring ends
\* on its start coordinate, every fragment's coordinates are a run of it in
\* one direction or the other, and its length counts every junction once
C12_CycleGivesOneRing ==
    (ra.done /\ IsCycle(ra.ways)) => OneRingOfCycle(ra.ways, ra.result)


\* C13: (SpecRing) every ring the assembler has returned, and every ring it
\* has accepted as complete, has at least 4 coordinates and ends on the
\* coordinate it starts with
C13_ReturnedRingsClosed ==
    /\ \A k \in 1..Len(ra.result) :
           /\ Len(ra.result[k]) >= 4
           /\ ra.result[k][1] = ra.result[k][Len(ra.result[k])]
    /\ \A k \in 1..Len(ra.complete) : isClosed(ra.complete[k])
    /\ Len(ra.result) = Len(ra.complete)

\* the nearly closed way alone: snapped shut and returned with 5 coordinates
C13_Witness ==
    /\ ra.done
    /\ ra.ways = <<WayCatalogue[8]>>
    /\ Len(ra.result) = 1
    /\ Len(ra.result[1]) = 5

EndsOf(way) == {way.stored[1], way.stored[Len(way.stored)]}

FarApart(a, b) == Abs(a[1] - b[1]) >= MAX_GAP \/ Abs(a[2] - b[2]) >= MAX_GAP

\* the fragments S of the list form one open chain that meets no other
\* fragment and whose two loose ends lie beyond the tolerance
UnclosableChain(ways, S) ==
    /\ S # {}
    /\ \A i \in S : ~ways[i].area /\ ways[i].stored[1] # ways[i].stored[Len(ways[i].stored)]
    /\ \A i \in S : \A j \in (1..Len(ways)) \ S :
           EndsOf(ways[i]) \cap (EndsOf(ways[j]) \cup {WayCoordinates(ways[j])[1]}) = {}
    /\ \A i \in S : \A c \in EndsOf(ways[i]) :
           Cardinality({j \in S : c \in EndsOf(ways[j])}) <= 2
    /\ \E i \in S : Chained(ways, {i}, Len(ways)) = S
    /\ LET loose == {c \in UNION {EndsOf(ways[i]) : i \in S} :
                        Cardinality({j \in S : c \in EndsOf(ways[j])}) = 1}
       IN  /\ Cardinality(loose) = 2
           /\ \A a, b \in loose : a # b => FarApart(a, b)

\* the list without the fragments S
Without(ways, S) ==
    LET F[k \in 0..Len(ways)] ==
            IF k = 0 THEN <<>>
            ELSE IF k \in S THEN F[k - 1] ELSE Append(F[k - 1], ways[k])
    IN  F[Len(ways)]

LeftRings == SelectSeq(ra.rings, LAMBDA r : ~r.null)

\* an open ring of 3 or more coordinates whose ends are less than the
\* tolerance apart along x and along y
Snappable(r) ==
    /\ Len(r.coords) >= 3
    /\ Abs(r.coords[1][1] - r.coords[Len(r.coords)][1]) < 100
    /\ Abs(r.coords[1][2] - r.coords[Len(r.coords)][2]) < 100

\* C21: (SpecRing) when the assembler has finished, the rings it accepted as
\* complete are, in order, the rings the merge loop left closed, unchanged,
\* and the open rings of 3 or more coordinates whose gap is below 100 in both
\* axes, each with exactly its start coordinate appended; every other open
\* ring is absent and has logged one discard message
C21_SnapCloseIffWithinTolerance ==
    (ra.done /\ ra.ways # <<>>) =>
        LET kept == SelectSeq(LeftRings, LAMBDA r : isClosed(r) \/ Snappable(r))
        IN  /\ Len(ra.complete) = Len(kept)
            /\ \A k \in 1..Len(kept) :
                   /\ ra.complete[k].ways = kept[k].ways
                   /\ ra.complete[k].coords =
                          IF isClosed(kept[k]) THEN kept[k].coords
                          ELSE kept[k].coords \o <<kept[k].coords[1]>>
            /\ ra.diags = Len(LeftRings) - Len(kept)

\* a fragment with a gap of 50, one with a gap of exactly 100 and one of 2
\* coordinates: the first is closed with its start, the other two are dropped
C21_Witness ==
    /\ ra.done
    /\ ra.ways = <<WayCatalogue[9], WayCatalogue[8], WayCatalogue[11]>>
    /\ Len(ra.complete) = 1
    /\ ra.complete[1].coords = WayCatalogue[8].stored \o <<WayCatalogue[8].stored[1]>>
    /\ ra.diags = 2


\* the entries of the ring vector that hold a ring
Live(rings) == {k \in 1..Len(rings) : ~rings[k].null}

\* a pass of the merge loop that merged: two rings that were open, the
\* second removed and its coordinates, less a shared junction, appended to
\* the first in one direction or the other; no other entry changed
OnePairMerged(before, after) ==
    \E i, j \in Live(before) :
        /\ i # j
        /\ ~isClosed(before[i]) /\ ~isClosed(before[j])
        /\ after[j].null
        /\ ~after[i].null
        /\ \E tail \in {before[j].coords, Reverse(before[j].coords)} :
               \/ after[i].coords = before[i].coords \o tail
               \/ after[i].coords = before[i].coords \o SubSeq(tail, 2, Len(tail))
        /\ \A k \in 1..Len(before) : k \notin {i, j} => after[k] = before[k]
        /\ Cardinality(Live(after)) = Cardinality(Live(before)) - 1

\* C22: (SpecRingLive) every call of the assembler returns; a pass of the
\* merge loop either merges exactly one pair of open rings, leaving one live
\* ring fewer and every other ring, the closed ones among them, as it was,
\* or changes nothing and leaves the loop; n fragments see at most n-1 merges
C22_MergeLoopTerminates ==
    /\ <>(pc = "ring_done")
    /\ [](ra.ways # <<>> => ra.passes <= Len(ra.ways) - 1)
    /\ [][pc = "ring_merge" =>
            /\ Len(ra'.rings) = Len(ra.rings)
            /\ IF pc' = "ring_merge"
               THEN /\ OnePairMerged(ra.rings, ra'.rings)
                    /\ ra'.passes = ra.passes + 1
               ELSE /\ pc' = "ring_collect"
                    /\ ra' = ra]_vars

\* three open fragments of the square: two merges, one ring returned
C22_Witness ==
    /\ ra.done
    /\ ra.ways = <<WayCatalogue[1], WayCatalogue[4], WayCatalogue[5]>>
    /\ ra.passes = 2
    /\ Len(ra.result) = 1


OuterRingsOf(f) == geodesk_assemble_rings(WaysWithRole(f, "outer")).rings
InnerRingsOf(f) == geodesk_assemble_rings(WaysWithRole(f, "inner")).rings

\* every point of ring r is inside ring o
RingInside(r, o) == \A k \in 1..Len(r) : isPointInRing(r[k][1], r[k][2], o)

\* the shells of the built multipolygon that carry ring r as a hole
OwnersOf(r) ==
    {i \in 1..Len(geo.geom.parts) :
        \E h \in 2..Len(geo.geom.parts[i]) : geo.geom.parts[i][h] = r}

\* C15: (SpecGeom) in the multipolygon built for an area relation every
\* assembled inner ring is a hole of at most one polygon; the shell of that
\* polygon contains the ring and no other outer ring containing the ring
\* lies inside that shell; an inner ring no outer ring contains is a hole of
\* no polygon and a warning was raised
C15_HoleInItsOwnShell ==
    (geo.done /\ geo.geom.type = "multipolygon") =>
        \A r \in Range(InnerRingsOf(geo.feature)) :
            LET containing == {o \in Range(OuterRingsOf(geo.feature)) : RingInside(r, o)}
            IN  /\ Cardinality(OwnersOf(r)) <= 1
                /\ \A i \in OwnersOf(r) :
                       /\ geo.geom.parts[i][1] \in containing
                       /\ \A o \in containing :
                              o # geo.geom.parts[i][1] => ~RingInside(o, geo.geom.parts[i][1])
                /\ containing = {} => (OwnersOf(r) = {} /\ geo.warnings >= 1)


\* the ring two fragments a, b chained into a cycle close, starting with a
CycleRing(a, b) ==
    IF a.stored[Len(a.stored)] = b.stored[1]
    THEN a.stored \o Tail(b.stored)
    ELSE a.stored \o Tail(Reverse(b.stored))

\* an area relation whose outer members are two ways that chain into one
\* ring and whose only inner member is a ring inside it
TwoOutersOneInner(f) ==
    /\ f.kind = "relation" /\ f.area
    /\ \A i \in 1..Len(f.members) :
           /\ f.members[i].type = "way" /\ ~f.members[i].placeholder
           /\ f.members[i].role \in {"outer", "inner"}
    /\ Len(WaysWithRole(f, "outer")) = 2
    /\ IsCycle(WaysWithRole(f, "outer"))
    /\ SumLen(WaysWithRole(f, "outer")) >= 3
    /\ Len(WaysWithRole(f, "inner")) = 1
    /\ LET c == WayCoordinates(WaysWithRole(f, "inner")[1])
       IN  /\ Len(c) >= 4 /\ c[1] = c[Len(c)]
           /\ RingInside(MmCoordsOf(c),
                         MmCoordsOf(CycleRing(WaysWithRole(f, "outer")[1],
                                              WaysWithRole(f, "outer")[2])))

\* C16: (SpecGeom) for an area relation whose two outer ways close one ring
\* with the inner way's ring inside it, the geometry built has exactly one
\* polygon, made of that ring and that one hole, and no warning was raised;
\* and whenever more than one outer ring assembles the geometry is a
\* multipolygon with one polygon per outer ring
C16_OnePolygonOneHole ==
    geo.done =>
        /\ TwoOutersOneInner(geo.feature) /\ geo.store =>
               /\ geo.geom.type = "multipolygon"
               /\ Len(geo.geom.parts) = 1
               /\ geo.geom.parts[1] =
                      << MmCoordsOf(CycleRing(WaysWithRole(geo.feature, "outer")[1],
                                              WaysWithRole(geo.feature, "outer")[2])),
                         MmCoordsOf(WayCoordinates(WaysWithRole(geo.feature, "inner")[1])) >>
               /\ geo.warnings = 0
        /\ (/\ geo.feature.kind = "relation" /\ geo.feature.area /\ geo.store
            /\ Len(OuterRingsOf(geo.feature)) > 1) =>
               /\ geo.geom.type = "multipolygon"
               /\ Len(geo.geom.parts) = Len(OuterRingsOf(geo.feature))

C16_Witness ==
    /\ geo.done
    /\ geo.feature.members = <<MemberCatalogue[3], MemberCatalogue[4], MemberCatalogue[8]>>
    /\ TwoOutersOneInner(geo.feature)
    /\ Len(geo.geom.parts) = 1
    /\ Len(geo.geom.parts[1]) = 2


\* the feature with only its way members of role outer or inner
OuterInnerOnly(f) ==
    [f EXCEPT !.members =
        SelectSeq(@, LAMBDA m : m.type = "way" /\ m.role \in {"outer", "inner"})]

\* C20: (SpecGeom) the geometry built for a cached feature is a point at the
\* node's converted position for a node; for a way with the area flag a
\* polygon of one ring (the way's coordinates and its start again), for any
\* other way a line of its coordinates; none for a relation that is not an
\* area; for an area relation the geometry its outer and inner way members
\* alone would give, and none, with no warning, when no outer ring assembles
C20_GeometryByKind ==
    (geo.done /\ geo.feature.cached) =>
        LET f == geo.feature
        IN  /\ f.kind = "node" =>
                   geo.geom = [type |-> "point", parts |-> <<ImpToMm(f.x), ImpToMm(f.y)>>]
            /\ (f.kind = "way" /\ f.way.area) =>
                   /\ geo.geom.type = "polygon"
                   /\ geo.geom.parts = <<MmCoordsOf(f.way.stored \o <<f.way.stored[1]>>)>>
            /\ (f.kind = "way" /\ ~f.way.area) =>
                   /\ geo.geom.type = "line"
                   /\ geo.geom.parts = MmCoordsOf(f.way.stored)
            /\ (f.kind = "relation" /\ ~f.area) =>
                   geo.geom = NoGeom /\ geo.warnings = 0
            /\ (f.kind = "relation" /\ f.area /\ geo.store) =>
                   /\ geo.geom = geodesk_build_lwgeom(OuterInnerOnly(f), TRUE).geom
                   /\ geo.geom.type \in {"none", "multipolygon"}
                   /\ OuterRingsOf(OuterInnerOnly(f)) = <<>> =>
                          geo.geom = NoGeom /\ geo.warnings = 0
                   /\ OuterRingsOf(OuterInnerOnly(f)) # <<>> =>
                          geo.geom.type = "multipolygon"

\* a ring with role label, an outer fragment that cannot be closed and an
\* inner ring: no geometry, no warning
C20_Witness ==
    /\ geo.done
    /\ geo.feature.kind = "relation" /\ geo.feature.area
    /\ geo.feature.members = <<MemberCatalogue[11], MemberCatalogue[5], MemberCatalogue[6]>>
    /\ geo.geom = NoGeom
    /\ geo.warnings = 0


\* C17: (Spec) the scan is reported finished only after every feature of the
\* view has been returned in this pass: no feature, whatever goes wrong while
\* it is read, keeps the features after it from being returned
C17_ErrorNeverEndsScan ==
    (pc = "scan" /\ obs.ended) =>
        obs.cur = [i \in 1..Len(ViewOrder(conn)) |-> Store[ViewOrder(conn)[i]].id]

\* C18: (SpecRow) for every tuple stored, tags were decoded only if the tags
\* column is retrieved and geometry was built only if the geom column is;
\* a retrieved column is in the target list or read by a clause kept for
\* local evaluation (or is column 1 when no column is needed at all); and
\* every column that is not retrieved is null
C18_MaterializedOnRequest ==
    (pc = "scan" /\ row.stored) =>
        LET retrieved == Range(fdw.retrieved_attrs)
            needed == fdw.target
                      \cup UNION {pull_varattnos(fdw.local_exprs[i]) :
                                     i \in 1..Len(fdw.local_exprs)}
        IN  /\ "tags" \in row.decoded => ATT_tags \in retrieved
            /\ "geom" \in row.decoded => ATT_geom \in retrieved
            /\ retrieved = IF needed = {} THEN {ATT_fid} ELSE needed
            /\ \A a \in AllAttrs \ retrieved : row.values[a].null

\* a COUNT over buildings: the tag clause is pushed down, the tags column is
\* not retrieved, no tag is decoded
C18_Witness ==
    /\ pc = "scan"
    /\ row.stored
    /\ fdw.target = {}
    /\ fdw.clauses = <<Eq(Arrow(ATT_tags, K_building), Text(V_yes))>>
    /\ fdw.retrieved_attrs = <<ATT_fid>>
    /\ row.decoded = {}
    /\ row.values[ATT_tags].null


\* C19: (Spec) the connection object of a scan is deleted at most once; a
\* connection object that is allocated is the one behind the scan's handle;
\* after the scan has ended the object is deleted, exactly once, and the
\* handle is cleared, however often the end of the scan is signalled; and
\* after a failed open nothing is allocated
C19_ReleasedExactlyOnce ==
    /\ conn.released <= 1
    /\ conn.allocated \in {0, 1}
    /\ conn.allocated = 1 => conn.handle
    /\ pc = "ended" => (conn.allocated = 0 /\ conn.released = 1 /\ ~conn.handle)
    /\ pc = "error" => (conn.allocated = 0 /\ conn.released = 0 /\ ~conn.handle)


-----------------------------------------------------------------------------
(* What a clause means to the host: the value of an expression on the row
   of a feature, in the three-valued logic of SQL.  A geometry is compared
   in store units by its position; members and parents are arrays, which
   have no object fields. *)

SqlNull == [k |-> "null", v |-> 0]
SqlBool(b) == [k |-> "bool", v |-> b]
SqlIsTrue(d) == d.k = "bool" /\ d.v
SqlIsFalse(d) == d.k = "bool" /\ ~d.v

ColumnValue(f, attno) ==
    CASE attno = ATT_fid -> [k |-> "int", v |-> f.id]
      [] attno = ATT_type -> [k |-> "int", v |-> f.type]
      [] attno = ATT_tags -> [k |-> "object", v |-> f.tags]
      [] attno = ATT_geom -> [k |-> "geom", v |-> <<f.x, f.y, f.x, f.y>>]
      [] attno = ATT_is_area -> SqlBool(f.is_area)
      [] OTHER -> [k |-> "array", v |-> <<>>]

ConstValue(e) ==
    IF e.constisnull THEN SqlNull
    ELSE CASE e.consttype \in {"INT4", "INT8"} -> [k |-> "int", v |-> e.ival]
           [] e.consttype = "TEXT" -> [k |-> "text", v |-> e.sval]
           [] OTHER -> [k |-> "geom", v |-> IF e.box = <<>> THEN <<>> ELSE ImpBox(e.box)]

SqlEq(a, b) ==
    IF a.k = "null" \/ b.k = "null" THEN SqlNull
    ELSE SqlBool(a.k = b.k /\ a.v = b.v)

BoxesOverlap(a, b) ==
    /\ a # <<>> /\ b # <<>>
    /\ a[1] <= b[3] /\ b[1] <= a[3]
    /\ a[2] <= b[4] /\ b[2] <= a[4]

HasField(a, key) ==
    /\ a.k = "object"
    /\ key.k = "text"
    /\ key.v \in DOMAIN a.v
    /\ a.v[key.v] # NoTag

SqlOp(opfunc, a, b) ==
    IF a.k = "null" \/ b.k = "null" THEN SqlNull
    ELSE CASE opfunc = "jsonb_object_field_text" ->
                  IF HasField(a, b) THEN [k |-> "text", v |-> a.v[b.v]] ELSE SqlNull
           [] opfunc = "jsonb_exists" -> SqlBool(HasField(a, b))
           [] opfunc = "eq" -> SqlEq(a, b)
           [] opfunc = "ne" -> SqlBool(~SqlEq(a, b).v)
           [] opfunc = "geometry_overlaps" ->
                  SqlBool(a.k = "geom" /\ b.k = "geom" /\ BoxesOverlap(a.v, b.v))
           [] OTHER -> SqlNull

\* ST_Expand: the box of the geometry grown by d metres on every side
SqlExpand(g, d) ==
    IF g.k # "geom" \/ d.k # "int" THEN SqlNull
    ELSE IF g.v = <<>> THEN g
    ELSE [k |-> "geom",
          v |-> <<g.v[1] - MetersToImp(d.v), g.v[2] - MetersToImp(d.v),
                  g.v[3] + MetersToImp(d.v), g.v[4] + MetersToImp(d.v)>>]

\* x = ANY (array) and x <> ALL (array) from the comparisons with the elements
SqlAny(useOr, tests) ==
    IF useOr
    THEN IF \E t \in tests : SqlIsTrue(t) THEN SqlBool(TRUE)
         ELSE IF \E t \in tests : t.k = "null" THEN SqlNull
         ELSE SqlBool(FALSE)
    ELSE IF \E t \in tests : SqlIsTrue(t) THEN SqlBool(FALSE)
         ELSE IF \E t \in tests : t.k = "null" THEN SqlNull
         ELSE SqlBool(TRUE)

SqlBoolOp(boolop, vals) ==
    CASE boolop = "NOT" ->
             IF \E t \in vals : t.k = "null" THEN SqlNull
             ELSE SqlBool(\A t \in vals : SqlIsFalse(t))
      [] boolop = "OR" ->
             IF \E t \in vals : SqlIsTrue(t) THEN SqlBool(TRUE)
             ELSE IF \E t \in vals : t.k = "null" THEN SqlNull
             ELSE SqlBool(FALSE)
      [] OTHER ->
             IF \E t \in vals : SqlIsFalse(t) THEN SqlBool(FALSE)
             ELSE IF \E t \in vals : t.k = "null" THEN SqlNull
             ELSE SqlBool(TRUE)

RECURSIVE SqlValue(_, _)
SqlValue(f, e) ==
    CASE e.tag = "Var" -> ColumnValue(f, e.varattno)
      [] e.tag = "Const" -> ConstValue(e)
      [] e.tag = "Param" -> ConstValue(e)
      [] e.tag = "FuncExpr" ->
             SqlExpand(SqlValue(f, e.args[1]), SqlValue(f, e.args[2]))
      [] e.tag = "OpExpr" ->
             SqlOp(e.opfunc, SqlValue(f, e.args[1]), SqlValue(f, e.args[2]))
      [] e.tag = "ScalarArrayOpExpr" ->
             SqlAny(e.useOr,
                    {SqlEq(SqlValue(f, e.args[1]), SqlValue(f, e.args[2].elements[i])) :
                        i \in 1..Len(e.args[2].elements)})
      [] e.tag = "NullTest" ->
             SqlBool((SqlValue(f, e.arg).k = "null") = (e.nulltesttype = "IS_NULL"))
      [] e.tag = "BoolExpr" ->
             SqlBoolOp(e.boolop, {SqlValue(f, e.args[i]) : i \in 1..Len(e.args)})
      [] OTHER -> SqlNull

\* the row of feature f passes clause c
RowPasses(f, c) == SqlIsTrue(SqlValue(f, c))

\* the store rejected the filter string of the scan
FilterRejected ==
    \E c \in CallsOf("geodesk_set_goql_filter_with_prefix") : ~ParseQuery(c.q).ok

\* C23: (Spec) in a scan whose filter string the store rejected, every row
\* returned passes every clause that planning took off the residual list, and
\* the view of the query option that geodesk_open installed is still the
\* connection's filtered view
C23_RejectedFilterFallsBack ==
    (pc = "scan" /\ FilterRejected) =>
        /\ out.found =>
               \A j \in 1..Len(fdw.remote_exprs) :
                   RowPasses(FeatureOf(out.id), fdw.remote_exprs[j])
        /\ conn.filtered_features =
               geodesk_open(fdw.fpinfo.datasource,
                            IF fdw.fpinfo.query = NullStr THEN <<>>
                            ELSE fdw.fpinfo.query).filtered_features


\* xl.expr is  type IN (...)  or  tags ->> key IN (...)
IsMembership(e) ==
    /\ IsA(e, "ScalarArrayOpExpr")
    /\ e.useOr
    /\ \/ e.args[1] = Var(ATT_type)
       \/ \E k \in Keys : e.args[1] = Arrow(ATT_tags, k)

\* every element of the list is a non-null constant of the type of the column
AllPlainConstants(e) ==
    LET t == IF e.args[1] = Var(ATT_type) THEN "INT4" ELSE "TEXT"
    IN  \A i \in 1..Len(e.args[2].elements) :
            LET elem == e.args[2].elements[i]
            IN  IsA(elem, "Const") /\ ~elem.constisnull /\ elem.consttype = t

\* the filter string the translated clause gives the store
XlFilter == FullQuery(xl.goql, xl.type_prefix)

\* C24: (SpecXl) a membership clause that the translator takes off the
\* residual list has only non-null constants of the column's type in its
\* list, and the filter compiled from it passes every feature of the store
\* whose row passes the clause
C24_MembershipConsumedOnlyIfComplete ==
    (xl.done /\ IsMembership(xl.expr) /\ xl.remote_exprs # <<>>) =>
        /\ AllPlainConstants(xl.expr)
        /\ \A i \in Idx :
               RowPasses(Store[i], xl.expr)
                   => MatchesQuery(Store[i], ParseQuery(XlFilter))


\* C26: (SpecXl) a clause that gave a tag fragment reads no column but tags,
\* and a clause that gave the spatial box has the geometry column itself as
\* the other operand of the intersects operator
C26_ConsumedOnlyForItsColumn ==
    xl.done =>
        /\ xl.goql # NullStr => pull_varattnos(xl.expr) = {ATT_tags}
        /\ xl.has_spatial_filter =>
               /\ IsA(xl.expr, "OpExpr")
               /\ xl.expr.opname = "&&"
               /\ xl.expr.args[1] = Var(ATT_geom)


\* the boxes of the spatial clauses that planning took off the residual list
PushedBoxes ==
    {extract_bbox_from_expr(fdw.remote_exprs[j]).box :
        j \in {i \in 1..Len(fdw.remote_exprs) :
                  extract_bbox_from_expr(fdw.remote_exprs[i]).ok}}

\* C25: (SpecBox) when planning took more than one spatial clause off the
\* residual list, every row the scan returns is of a feature that lies in the
\* box of each of them
C25_AllPushedBoxesHold ==
    (pc = "scan" /\ out.found /\ Cardinality(PushedBoxes) > 1) =>
        \A b \in PushedBoxes : InBox(FeatureOf(out.id), ImpBox(b))


\* C27: (SpecXl) the fragment compiled from  tags ->> k = v  differs from the
\* existence fragment of k and from the fragment of every  tags ->> k IN (...)
\* whose values are not just v, also when v holds ',', ']', '[', '=' or is '*'
C27_FragmentsKeptApart ==
    xl.done =>
        \A k \in Keys : \A v \in Values \cup SpecialValues :
            xl.expr = Eq(Arrow(ATT_tags, k), Text(v)) =>
                /\ xl.goql # extract_tag_exists(Has(ATT_tags, k))
                /\ \A vs \in NonEmptySeqsUpTo(Values, MaxInList) :
                       Range(vs) # {v} =>
                           xl.goql # extract_tag_in_list(
                                         In(Arrow(ATT_tags, k),
                                            [i \in 1..Len(vs) |-> Text(vs[i])]))


\* the distance between a and b is below 100
TrueGapBelow(a, b) == ~Overflows(a, b) /\ -100 < a - b /\ a - b < 100

\* C28: (SpecGap) a ring that the assembler has snap-closed has a first and a
\* last stored coordinate whose distance, as integers, is below 100 along x
\* and along y
C28_GapOnTrueDifference ==
    (ra.done /\ ra.complete # <<>>) =>
        LET stored == ra.ways[1].stored
        IN  /\ TrueGapBelow(stored[1][1], stored[3][1])
            /\ TrueGapBelow(stored[1][2], stored[3][2])


\* C30: (SpecRing) every ring the assembler has returned runs over at least
\* 3 different coordinates
C30_RingsHaveThreeDistinct ==
    ra.done =>
        \A k \in 1..Len(ra.result) : Cardinality(Range(ra.result[k])) >= 3


\* a text without the control characters that have no short escape
RECURSIVE Lossless(_)
Lossless(t) ==
    IF t = <<>> THEN <<>>
    ELSE (IF Head(t) < 32 /\ Head(t) \notin {8, 9, 10, 12, 13} THEN <<>>
          ELSE <<Head(t)>>) \o Lossless(Tail(t))

\* C29: (SpecTags) the object decoded from the text of geodesk_get_tags_json
\* holds exactly the tags of the feature, each key and value with every byte
\* but the control characters that have no short escape
C29_TagsRoundTrip ==
    row.step = "datum" =>
        /\ row.jsonb.ok
        /\ row.jsonb.obj =
               {[key |-> Lossless(row.tags[i].key), value |-> Lossless(row.tags[i].value)] :
                   i \in 1..Len(row.tags)}


=============================================================================
